---- MODULE Spec2Model ----
(***************************************************************************)
(* The CodeTraverse bridge: one call of the public API on a bridge, the    *)
(* runner operation it reaches, and the child process invocations that     *)
(* operation starts (bridge/src/bridge.ts, bridge/src/python-runner.ts).   *)
(*                                                                         *)
(* A step is one turn of the Node event loop: the synchronous part of the  *)
(* API call, the completion of a filesystem request, or one event of a     *)
(* child process or timer together with the promise continuations          *)
(* (microtasks) it releases.                                               *)
(***************************************************************************)
EXTENDS Integers, Sequences, FiniteSets, TLC

(***************************************************************************)
(* Bounds of the model.                                                    *)
(***************************************************************************)
\* data chunks (stdout and stderr together) one child process delivers
MaxChunks == 2

\* JSON files the engine leaves under the output directory
MaxFiles == 2

\* invocations a caller has in flight at once
MaxCalls == 2

\* lines of the text an engine prints, and hops of the path it reports
MaxLines == 4
MaxJsonLines == 2

\* lists of languages a caller holds, and decodes it has asked for
MaxLists == 2
MaxDecodes == 3
MaxHops == 3

(***************************************************************************)
(* Values.                                                                 *)
(***************************************************************************)
\* an optional number that was not given: undefined and 0 are both falsy
\* under || and both differ from -1, the only tests the code applies to it
NotGiven == 0

\* the default of PythonRunner.timeout
DefaultTimeout == 60000

\* the ceiling executeShell arms its timer with (5 * 60 * 1000)
ShellTimeout == 300000

\* the per-call override that disables the timer
NoTimeout == -1

\* validateSetup's two probes
VersionProbeTimeout == 5000
HelpProbeTimeout == 10000

\* BridgeConfig.timeout values a bridge is constructed with
ConfigTimeouts == {NotGiven, 10, 30000}

\* characters a child writes; Whitespace are those String.trim removes
Chars == {" ", "a"}
Whitespace == {" ", "\n"}

\* languages a caller passes: the six of the Language type and three others
Languages ==
  {"haskell", "python", "rescript", "typescript", "rust", "golang",
   "java", "Python", ""}

\* the working directory's two default output directories
OutputBaseDir == "/wd/fdep"
GraphDir == "/wd/graph"

\* paths a caller passes, and the ones that exist when the bridge is built
Paths == {"/repo", "/missing", OutputBaseDir}
InitialFs == {"/repo"}

\* exit codes a close event carries: a number, or null after a signal
Code(n) == [null |-> FALSE, n |-> n]
NullCode == [null |-> TRUE, n |-> 0]
ExitCodes == {Code(0), Code(2), NullCode}
\* the negated errno Node closes a child with that could not be spawned
SpawnFailCode == Code(-2)

\* messages of the system error a failed spawn emits
SysMessages == {"spawn uv ENOENT"}

\* JavaScript truthiness of a close code and of an optional number
Truthy(code) == ~code.null /\ code.n # 0
Or(a, b) == IF a # 0 THEN a ELSE b

\* an optional string that was not given (the value undefined); it and the
\* empty string are the falsy ones
Absent == "<undefined>"
Falsy(s) == s \in {Absent, ""}
OrElse(s, default) == IF Falsy(s) THEN default ELSE s

\* the configurations a bridge is constructed with
Configs ==
  {[timeout |-> t,
    pythonPath |-> IF t = 30000 THEN "/usr/bin/python3" ELSE Absent] :
     t \in ConfigTimeouts}

\* the outputBase and graphDir of the options a caller passes
OutputOptions ==
  {<<Absent, Absent>>, <<"out", "graphs">>, <<"", "">>}

\* the component identities a caller passes as source
Sources == {"A", ""}

VARIABLES
  config,     \* the BridgeConfig the bridge was constructed with
  heap,       \* the arrays of languages: heap[b] is the supportedLanguages
              \* field of bridge b, the others are the copies handed out
  held,       \* what earlier calls returned to the caller
  fs,         \* the paths that exist
  call,       \* the API call: operation, arguments, position, result
  runnerOps,  \* the PythonRunner methods the call has invoked, in order
  inv,        \* the process invocations started, in order
  uncaught    \* exceptions thrown out of a timer or event callback

vars == <<config, heap, held, fs, call, runnerOps, inv, uncaught>>

(***************************************************************************)
(* Errors (bridge/src/types.ts).                                           *)
(***************************************************************************)
\* the classes types.ts exports; python-runner.ts also imports
\* ShellScriptError from it, which it does not export
TypesExports ==
  {"CodeTraverseError", "PythonProcessError", "InvalidLanguageError",
   "FileNotFoundError"}

PythonProcessError(message, exitCode, stderr) ==
  [name |-> "PythonProcessError", code |-> "PYTHON_PROCESS_ERROR",
   message |-> message, exitCode |-> exitCode, stderr |-> stderr]

InvalidLanguageError(language) ==
  [name |-> "InvalidLanguageError", code |-> "INVALID_LANGUAGE",
   message |-> "Unsupported language: " \o language, language |-> language]

FileNotFoundError(filePath) ==
  [name |-> "FileNotFoundError", code |-> "FILE_NOT_FOUND",
   message |-> "File not found: " \o filePath, filePath |-> filePath]

CodeTraverseError(message, code, details) ==
  [name |-> "CodeTraverseError", code |-> code, message |-> message,
   details |-> details]

\* what JSON.parse throws; it is an Error, and no class of types.ts
SyntaxError(message) ==
  [name |-> "SyntaxError", code |-> "", message |-> message]

\* a thrown value that is not an Error: a string
Thrown(text) == [thrown |-> text]

\* `error instanceof Error`
IsError(error) == "name" \in DOMAIN error

\* what `new <class>(...)` throws when the imported binding is undefined
TypeError(class) ==
  [name |-> "TypeError", code |-> "",
   message |-> class \o " is not a constructor"]

\* `new ShellScriptError(message, exitCode, stderr)` in python-runner.ts:
\* the value constructed, or the TypeError the expression throws
NewShellScriptError(message, exitCode, stderr) ==
  IF "ShellScriptError" \in TypesExports
  THEN [threw |-> FALSE,
        value |-> [name |-> "ShellScriptError", code |-> "SHELL_SCRIPT_ERROR",
                   message |-> message, exitCode |-> exitCode,
                   stderr |-> stderr]]
  ELSE [threw |-> TRUE, value |-> TypeError("ShellScriptError")]

NewPythonProcessError(message, exitCode, stderr) ==
  [threw |-> FALSE, value |-> PythonProcessError(message, exitCode, stderr)]

\* bridge.ts wrapError
wrapError(error, operation) ==
  IF IsError(error) THEN error
  ELSE CodeTraverseError("Unknown error in " \o operation \o ": "
                           \o error.thrown,
                         "UNKNOWN_ERROR", error)

(***************************************************************************)
(* Pure functions.                                                         *)
(***************************************************************************)
\* the initializer of the supportedLanguages field
supportedLanguages ==
  <<"haskell", "python", "rescript", "typescript", "rust", "golang">>

\* the bridges there are, this bridge, and the heap after their construction
Bridges == {1, 2}
This == 1
InitialHeap == [b \in Bridges |-> supportedLanguages]

\* isLanguageSupported comparing without regard to case
isLanguageSupported_IgnoreCase(language) ==
  \E k \in 1..Len(heap[This]) :
    heap[This][k] = (IF language = "Python" THEN "python" ELSE language)

\* bridge.ts isLanguageSupported: this.supportedLanguages.includes(language)
isLanguageSupported(language) ==
  \E k \in 1..Len(heap[This]) : heap[This][k] = language

RECURSIVE TrimStart(_)
TrimStart(s) ==
  IF s = <<>> THEN s
  ELSE IF Head(s) \in Whitespace THEN TrimStart(Tail(s)) ELSE s

RECURSIVE TrimEnd(_)
TrimEnd(s) ==
  IF s = <<>> THEN s
  ELSE IF s[Len(s)] \in Whitespace THEN TrimEnd(SubSeq(s, 1, Len(s) - 1))
  ELSE s

\* String.prototype.trim on a captured stream
Trim(s) == TrimEnd(TrimStart(s))

(***************************************************************************)
(* Text and its decoding (bridge.ts).  A text is a sequence of lexemes:    *)
(* a whitespace character, or a run of other characters that the decoders  *)
(* only ever treat as a whole.                                             *)
(***************************************************************************)
Newline == "\n"
Arrow == "→"
BannerInto == "edges INTO"
BannerOutOf == "edges OUT OF"
EdgeOpen == "--["
EdgeClose == "]-->"

\* String.prototype.split(sep): the pieces between the occurrences of sep
RECURSIVE Split(_, _)
Split(s, sep) ==
  IF \A k \in 1..Len(s) : s[k] # sep THEN <<s>>
  ELSE LET at == CHOOSE k \in 1..Len(s) :
                   s[k] = sep /\ \A j \in 1..(k - 1) : s[j] # sep
       IN <<SubSeq(s, 1, at - 1)>> \o Split(SubSeq(s, at + 1, Len(s)), sep)

\* String.prototype.includes
Includes(s, lexeme) == \E k \in 1..Len(s) : s[k] = lexeme

\* the first position at or after k of s that holds no whitespace
\* (Len(s) + 1 when there is none)
NextNonSpace(s, k) ==
  LET at == {j \in k..Len(s) : s[j] \notin Whitespace}
  IN IF at = {} THEN Len(s) + 1
     ELSE CHOOSE j \in at : \A i \in at : j <= i

\* line.match(/(.+?)\s+--\[(.+?)\]-->\s+(.+)/): the three groups of the
\* leftmost match, the lazy groups as short and the greedy \s+ as long as a
\* match allows; <<>> when the line does not match
EdgeMatch(line) ==
  LET n == Len(line)
      \* the ends c of group 2 the tail `]-->\s+(.+)` matches after
      Ends(p) == {c \in (p + 1)..(n - 3) :
                    line[c + 1] = EdgeClose /\ line[c + 2] \in Whitespace}
      \* the ends a of group 1, `\s+--\[` matching after it up to p
      Open(a) == NextNonSpace(line, a + 1)
      Starts == {a \in 1..n :
                   LET p == Open(a)
                   IN p > a + 1 /\ p <= n /\ line[p] = EdgeOpen
                      /\ Ends(p) # {}}
  IN IF Starts = {} THEN <<>>
     ELSE LET a == CHOOSE x \in Starts : \A y \in Starts : x <= y
              p == Open(a)
              c == CHOOSE x \in Ends(p) : \A y \in Ends(p) : x <= y
              q == NextNonSpace(line, c + 2)
              d == IF q <= n THEN q ELSE n
          IN <<SubSeq(line, 1, a), SubSeq(line, p + 1, c),
               SubSeq(line, d, n)>>

\* Array.prototype.map(part => part.trim())
RECURSIVE MapTrim(_)
MapTrim(parts) ==
  IF parts = <<>> THEN <<>>
  ELSE <<Trim(Head(parts))>> \o MapTrim(Tail(parts))

\* parsePathResult reporting "not found" with an empty path
parsePathResult_EmptyPath(stdout) ==
  IF Includes(stdout, Arrow)
  THEN [found |-> TRUE, path |-> MapTrim(Split(stdout, Arrow)),
        message |-> stdout]
  ELSE [found |-> FALSE, path |-> <<>>, message |-> stdout]

\* bridge.ts parsePathResult
parsePathResult(stdout) ==
  LET lines == Split(Trim(stdout), Newline)
      hits == {k \in 1..Len(lines) : Includes(lines[k], Arrow)}
  IN IF hits # {}
     THEN LET pathLine == lines[CHOOSE k \in hits : \A j \in hits : k <= j]
              parts == MapTrim(Split(pathLine, Arrow))
          IN [found |-> TRUE,
              path |-> IF Len(parts) > 1 THEN parts ELSE <<>>,
              message |-> stdout]
     ELSE [found |-> FALSE, message |-> stdout]

\* the loop matching a banner line against the edge pattern as well,
\* in the section the banner opens
RECURSIVE NeighborLoop_BannerMatched(_, _, _, _)
NeighborLoop_BannerMatched(lines, k, section, acc) ==
  IF k > Len(lines) THEN acc
  ELSE LET now == IF Includes(lines[k], BannerInto) THEN "incoming"
                  ELSE IF Includes(lines[k], BannerOutOf) THEN "outgoing"
                  ELSE section
           edgeMatch == EdgeMatch(lines[k])
       IN IF edgeMatch # <<>> /\ now = "incoming"
          THEN NeighborLoop_BannerMatched(lines, k + 1, now,
                 [acc EXCEPT !.incoming =
                    Append(@, [from |-> Trim(edgeMatch[1]),
                               relation |-> Trim(edgeMatch[2])])])
          ELSE IF edgeMatch # <<>> /\ now = "outgoing"
          THEN NeighborLoop_BannerMatched(lines, k + 1, now,
                 [acc EXCEPT !.outgoing =
                    Append(@, [to |-> Trim(edgeMatch[3]),
                               relation |-> Trim(edgeMatch[2])])])
          ELSE NeighborLoop_BannerMatched(lines, k + 1, now, acc)

\* the loop of parseNeighborResult over the lines from the k-th on; acc
\* holds the two lists so far and section the banner last seen
RECURSIVE NeighborLoop(_, _, _, _)
NeighborLoop(lines, k, section, acc) ==
  IF k > Len(lines) THEN acc
  ELSE IF Includes(lines[k], BannerInto)
  THEN NeighborLoop(lines, k + 1, "incoming", acc)
  ELSE IF Includes(lines[k], BannerOutOf)
  THEN NeighborLoop(lines, k + 1, "outgoing", acc)
  ELSE LET edgeMatch == EdgeMatch(lines[k])
       IN IF edgeMatch # <<>> /\ section = "incoming"
          THEN NeighborLoop(lines, k + 1, section,
                 [acc EXCEPT !.incoming =
                    Append(@, [from |-> Trim(edgeMatch[1]),
                               relation |-> Trim(edgeMatch[2])])])
          ELSE IF edgeMatch # <<>> /\ section = "outgoing"
          THEN NeighborLoop(lines, k + 1, section,
                 [acc EXCEPT !.outgoing =
                    Append(@, [to |-> Trim(edgeMatch[3]),
                               relation |-> Trim(edgeMatch[2])])])
          ELSE NeighborLoop(lines, k + 1, section, acc)

\* parseNeighborResult never collecting an outgoing edge
parseNeighborResult_IncomingOnly(stdout) ==
  [NeighborLoop(Split(Trim(stdout), Newline), 1, "null",
                [incoming |-> <<>>, outgoing |-> <<>>])
   EXCEPT !.outgoing = <<>>]

\* parseNeighborResult taking the lines above the first banner as incoming
parseNeighborResult_DefaultIncoming(stdout) ==
  NeighborLoop(Split(Trim(stdout), Newline), 1, "incoming",
               [incoming |-> <<>>, outgoing |-> <<>>])

\* parseNeighborResult with `section` kept from one decode to the next:
\* it starts in the section the previous neighbor report ended in
parseNeighborResult_SectionKept(stdout) ==
  NeighborLoop(Split(Trim(stdout), Newline), 1,
               IF held = <<>> \/ held[Len(held)].op # "getNeighbors"
               THEN "null"
               ELSE IF held[Len(held)].ret.outgoing # <<>> THEN "outgoing"
               ELSE IF held[Len(held)].ret.incoming # <<>> THEN "incoming"
               ELSE "null",
               [incoming |-> <<>>, outgoing |-> <<>>])

\* bridge.ts parseNeighborResult
parseNeighborResult(stdout) ==
  NeighborLoop(Split(Trim(stdout), Newline), 1, "null",
               [incoming |-> <<>>, outgoing |-> <<>>])

(***************************************************************************)
(* JSON.  A JSON document is one lexeme of a text; JsonValue is the value  *)
(* it denotes.                                                             *)
(***************************************************************************)
\* two values of the Component type, reduced to three of the required fields
AComponent ==
  [kind |-> "function", name |-> "f", full_component_path |-> "m::f"]
BComponent ==
  [kind |-> "class", name |-> "C", full_component_path |-> "m::C"]

JArray(items) == [type |-> "array", items |-> items]
JObject(fields) == [type |-> "object", fields |-> fields]

\* a GraphData whose one edge ends at "zz", which is none of its nodes
DanglingDoc ==
  "{\"nodes\":[{\"id\":\"a\"}],\"edges\":[{\"from\":\"a\",\"to\":\"zz\",...}]}"

\* the documents an engine writes: two lists of Components, a GraphData,
\* an empty object, and a list whose element lacks the fields of a Component
JsonDocs ==
  {"[]", "[{\"kind\":\"function\",...}]", "[{\"kind\":\"class\",...}]",
   "{\"nodes\":[],\"edges\":[]}", "{}", "[{}]", DanglingDoc}

JsonValue(doc) ==
  CASE doc = "[]" -> JArray(<<>>)
    [] doc = "[{\"kind\":\"function\",...}]" -> JArray(<<AComponent>>)
    [] doc = "[{\"kind\":\"class\",...}]" -> JArray(<<BComponent>>)
    [] doc = "{\"nodes\":[],\"edges\":[]}" ->
         JObject([nodes |-> JArray(<<>>), edges |-> JArray(<<>>)])
    [] doc = "{}" -> JObject(<<>>)
    [] doc = DanglingDoc ->
         JObject([nodes |-> JArray(<<[id |-> "a", category |-> "function"]>>),
                  edges |-> JArray(<<[from |-> "a", to |-> "zz",
                                      relation |-> "calls"]>>)])
    [] doc = "[{}]" -> JArray(<<JObject(<<>>)>>)

\* JSON.parse(text): the value, or the SyntaxError it throws
JSONparse(text) ==
  LET t == Trim(text)
  IN IF Len(t) = 1 /\ t[1] \in JsonDocs
     THEN [threw |-> FALSE, value |-> JsonValue(t[1])]
     ELSE [threw |-> TRUE,
           value |-> SyntaxError(IF t = <<>>
                                 THEN "Unexpected end of JSON input"
                                 ELSE "Unexpected token in JSON")]

\* what spreading a value that is no array into push(...) throws
NotIterable ==
  [name |-> "TypeError", code |-> "",
   message |-> "fileComponents is not iterable"]

\* the loop of loadComponentsFromDirectory over the contents of the JSON
\* files found, components being the list collected so far
RECURSIVE LoadLoop(_, _)
LoadLoop(files, components) ==
  IF files = <<>> THEN [threw |-> FALSE, value |-> components]
  ELSE LET parsed == JSONparse(Head(files))
       IN IF parsed.threw THEN parsed
          ELSE IF parsed.value.type # "array"
          THEN [threw |-> TRUE, value |-> NotIterable]
          ELSE LoadLoop(Tail(files), components \o parsed.value.items)

(***************************************************************************)
(* The output directory.  A directory is the sequence of its entries in    *)
(* the order readdir lists them; a name and a path are sequences of        *)
(* lexemes, the extension being the last one.                              *)
(***************************************************************************)
FileEntry(name, text) ==
  [name |-> name, kind |-> "file", text |-> text, entries |-> <<>>]
DirEntry(name, entries) ==
  [name |-> name, kind |-> "dir", text |-> <<>>, entries |-> entries]

\* what the engine can leave in the output directory: two lists of one
\* Component, a subdirectory with a list and a file that is no JSON file,
\* and a JSON file holding an object
EntryPool ==
  <<FileEntry(<<"a", ".json">>, <<"[{\"kind\":\"function\",...}]">>),
   FileEntry(<<"b", ".json">>, <<"[{\"kind\":\"class\",...}]">>),
   DirEntry(<<"sub">>,
            <<FileEntry(<<"notes", ".txt">>, <<"a">>),
              FileEntry(<<"c", ".json">>, <<"[{\"kind\":\"function\",...}]">>)>>),
   FileEntry(<<"x", ".json">>, <<"{}">>)>>

\* the listings readdir can give of an output directory: some entries in
\* any order, none twice, each named by its position in EntryPool
DirListings ==
  {d \in UNION {[1..n -> DOMAIN EntryPool] : n \in 0..MaxFiles} :
     \A i, j \in DOMAIN d : i # j => d[i] # d[j]}

\* fs.promises.readdir(dir, {withFileTypes: true}) on a listing
readdir(listing) == [k \in DOMAIN listing |-> EntryPool[listing[k]]]

\* path.join(dir, name)
join(dir, name) == dir \o <<"/">> \o name

\* String.endsWith
endsWith(name, suffix) == name # <<>> /\ name[Len(name)] = suffix

\* bridge.ts getJsonFiles over the entries readdir gave for dir: the JSON
\* files below it, each with its path
RECURSIVE getJsonFiles(_, _)
getJsonFiles(dir, entries) ==
  IF entries = <<>> THEN <<>>
  ELSE LET entry == Head(entries)
           fullPath == join(dir, entry.name)
       IN (IF entry.kind = "dir"
           THEN getJsonFiles(fullPath, entry.entries)
           ELSE IF entry.kind = "file" /\ endsWith(entry.name, ".json")
           THEN <<[path |-> fullPath, text |-> entry.text]>>
           ELSE <<>>)
          \o getJsonFiles(dir, Tail(entries))


\* `${code || 'unknown'}` and `code || -1` of the close handlers
CodeText(code) == IF Truthy(code) THEN ToString(code.n) ELSE "unknown"
CodeOrMinusOne(code) == IF Truthy(code) THEN code.n ELSE -1

TimeoutMessage(ms) ==
  "Python process timed out after " \o ToString(ms) \o "ms"
PythonExitMessage(code) ==
  "Python process exited with code " \o CodeText(code)
ShellExitMessage(code) ==
  "shell script exited with code " \o CodeText(code)
SpawnFailMessage(msg) == "Failed to spawn Python process: " \o msg
SetupFailMessage(msg) == "CodeTraverse setup validation failed: " \o msg

(***************************************************************************)
(* The executors (python-runner.ts, executeCommand and executeShell).      *)
(* An invocation is the state one executor call closes over: the child,    *)
(* the timer, the two buffers and the promise it returned.                 *)
(*   timerVar  what the variable `timer` read by the close and error       *)
(*             handlers holds: the timer's handle, or undefined            *)
(*   timeout   the timer armed by setTimeout: none, pending, fired or      *)
(*             cleared                                                     *)
(*   kills     the signals passed to child.kill, in order                  *)
(*   events    the timer, close and error callbacks that have run          *)
(*   spawned   the command and the arguments given to spawn                *)
(***************************************************************************)
Pending == [state |-> "pending", value |-> <<>>]

\* this.timeout and this.pythonPath, set by the PythonRunner constructor
ThisTimeout == Or(config.timeout, DefaultTimeout)
ThisPythonPath == OrElse(config.pythonPath, "python")

\* the uv executable of the environment createEnv sets up
uvPath == "$HOME/npm_codetraverse/tmp_env/bin/uv"

\* child_process.spawn(command, args)
spawn(command, args) == [command |-> command, args |-> args]

\* the argument lists the runner methods hand to executeCommand
Blackbox == <<"-m", "codetraverse.utils.blackbox">>

runAnalysis(rootDir, language, outputBase, graphDir) ==
  Blackbox \o <<"--ROOT_DIR", rootDir, "--LANGUAGE", language>>
    \o (IF Falsy(outputBase) THEN <<>> ELSE <<"--OUTPUT_BASE", outputBase>>)
    \o (IF Falsy(graphDir) THEN <<>> ELSE <<"--GRAPH_DIR", graphDir>>)

runPathQuery_SourceFirst(graphPath, component, source) ==
  <<"python", "-c",
    "import codetraverse.path as codepath;codepath.find_path(\""
      \o graphPath \o "\", \"" \o source \o "\", \"" \o component \o "\")">>

runPathQuery(graphPath, component, source) ==
  <<"python", "-c",
    "import codetraverse.path as codepath;codepath.find_path(\""
      \o graphPath \o "\", \"" \o component
      \o (IF Falsy(source) THEN "" ELSE "\", \"" \o source) \o "\")">>

runSingleFileAnalysis(filePath, language) ==
  Blackbox \o <<"--SINGLE_FILE", filePath, "--LANGUAGE", language,
                "--OUTPUT_FORMAT", "json", "--QUIET">>

runSchemaExtraction(rootDir, language, outputBase, graphDir) ==
  Blackbox \o <<"--ROOT_DIR", rootDir, "--LANGUAGE", language,
                "--JSON_SCHEMA", "--QUIET">>
    \o (IF Falsy(outputBase) THEN <<>> ELSE <<"--OUTPUT_BASE", outputBase>>)
    \o (IF Falsy(graphDir) THEN <<>> ELSE <<"--GRAPH_DIR", graphDir>>)

runBlackboxArgs(fn, args) == Blackbox \o <<fn>> \o args

runCreateFdepDataAndGraphArgs(rootDir, outputBase, graphDir, noClear) ==
  <<"-m", "codetraverse.main", "create_fdep_data", rootDir,
    "--output_base", outputBase, "--graph_dir", graphDir>>
    \o (IF noClear THEN <<"--no_clear">> ELSE <<>>)

\* this.codetraversePath being the default, 'codetraverse'
createEnvArgs ==
  <<"codetraverse/scripts/setup.sh", ThisPythonPath, "codetraverse">>

\* executeCommand arming its timer whatever the override is
executeCommand_AlwaysTimer(args, timeoutMs, spawnOk) ==
  [executor |-> "executeCommand",
   spawned |-> spawn(uvPath, <<"run">> \o args),
   timeoutMs |-> timeoutMs,
   actualTimeout |-> Or(timeoutMs, ThisTimeout),
   timerVar |-> "undefined",
   timeout |-> "pending",
   spawnOk |-> spawnOk,
   stdout |-> <<>>, stderr |-> <<>>,
   events |-> <<>>, kills |-> <<>>,
   promise |-> Pending]

\* executeCommand preferring the configured timeout to the override
executeCommand_ConfigFirst(args, timeoutMs, spawnOk) ==
  [executor |-> "executeCommand",
   spawned |-> spawn(uvPath, <<"run">> \o args),
   timeoutMs |-> timeoutMs,
   actualTimeout |-> Or(config.timeout, Or(timeoutMs, DefaultTimeout)),
   timerVar |-> "undefined",
   timeout |-> IF timeoutMs # NoTimeout THEN "pending" ELSE "none",
   spawnOk |-> spawnOk,
   stdout |-> <<>>, stderr |-> <<>>,
   events |-> <<>>, kills |-> <<>>,
   promise |-> Pending]

\* python-runner.ts executeCommand, up to the registration of the handlers;
\* the `const timer` of the if-block shadows the `let timer = undefined`
\* the handlers read
executeCommand(args, timeoutMs, spawnOk) ==
  [executor |-> "executeCommand",
   spawned |-> spawn(uvPath, <<"run">> \o args),
   timeoutMs |-> timeoutMs,
   actualTimeout |-> Or(timeoutMs, ThisTimeout),
   timerVar |-> "undefined",
   timeout |-> IF timeoutMs # NoTimeout THEN "pending" ELSE "none",
   spawnOk |-> spawnOk,
   stdout |-> <<>>, stderr |-> <<>>,
   events |-> <<>>, kills |-> <<>>,
   promise |-> Pending]

\* executeShell arming its timer with the configured timeout
executeShell_ConfigTimeout(args, spawnOk) ==
  [executor |-> "executeShell",
   spawned |-> spawn("sh", args),
   timeoutMs |-> NotGiven,
   actualTimeout |-> ThisTimeout,
   timerVar |-> "handle",
   timeout |-> "pending",
   spawnOk |-> spawnOk,
   stdout |-> <<>>, stderr |-> <<>>,
   events |-> <<>>, kills |-> <<>>,
   promise |-> Pending]

executeShell(args, spawnOk) ==
  [executor |-> "executeShell",
   spawned |-> spawn("sh", args),
   timeoutMs |-> NotGiven,
   actualTimeout |-> ShellTimeout,
   timerVar |-> "handle",
   timeout |-> "pending",
   spawnOk |-> spawnOk,
   stdout |-> <<>>, stderr |-> <<>>,
   events |-> <<>>, kills |-> <<>>,
   promise |-> Pending]

\* resolve and reject of a promise: only the first call has an effect
Settle(rec, state, value) ==
  IF rec.promise.state = "pending"
  THEN [rec EXCEPT !.promise = [state |-> state, value |-> value]]
  ELSE rec

Resolve(rec, value) == [rec |-> Settle(rec, "resolved", value), thrown |-> <<>>]

\* reject(new C(...)): the argument is evaluated first, and may throw
Reject(rec, made) ==
  IF made.threw
  THEN [rec |-> rec, thrown |-> <<made.value>>]
  ELSE [rec |-> Settle(rec, "rejected", made.value), thrown |-> <<>>]

\* clearTimeout(timer), timer being what the handler's scope binds
clearTimeout(rec) ==
  IF rec.timerVar = "handle" /\ rec.timeout = "pending"
  THEN [rec EXCEPT !.timeout = "cleared"]
  ELSE rec

kill(rec, signal) == [rec EXCEPT !.kills = Append(@, signal)]

Captured(rec) == [stdout |-> Trim(rec.stdout), stderr |-> Trim(rec.stderr)]

\* the timer callback rejecting without killing the child
CommandOnTimeout_NoKill(rec) ==
  Reject(rec,
         NewPythonProcessError(TimeoutMessage(rec.actualTimeout), -1,
                               "Process timeout"))

\* the timer callback killing the child without rejecting
CommandOnTimeout_KillOnly(rec) ==
  [rec |-> kill(rec, "SIGKILL"), thrown |-> <<>>]

\* the setTimeout callback of executeCommand
CommandOnTimeout(rec) ==
  Reject(kill(rec, "SIGKILL"),
         NewPythonProcessError(TimeoutMessage(rec.actualTimeout), -1,
                               "Process timeout"))

\* the close handler testing `!code` instead of `code === 0`
CommandOnClose_FalsyCode(rec, code) ==
  LET r == IF rec.timeoutMs # NoTimeout THEN clearTimeout(rec) ELSE rec
  IN IF ~Truthy(code)
     THEN Resolve(r, Captured(r))
     ELSE Reject(r, NewPythonProcessError(PythonExitMessage(code),
                                          CodeOrMinusOne(code),
                                          Trim(r.stderr)))

\* child.on('close') of executeCommand
CommandOnClose(rec, code) ==
  LET r == IF rec.timeoutMs # NoTimeout THEN clearTimeout(rec) ELSE rec
  IN IF code = Code(0)
     THEN Resolve(r, Captured(r))
     ELSE Reject(r, NewPythonProcessError(PythonExitMessage(code),
                                          CodeOrMinusOne(code),
                                          Trim(r.stderr)))

\* the error handler dropping the system message
CommandOnError_NoMessage(rec, msg) ==
  Reject(clearTimeout(rec),
         NewPythonProcessError("Failed to spawn Python process", -1, ""))

\* child.on('error') of executeCommand
CommandOnError(rec, msg) ==
  Reject(clearTimeout(rec),
         NewPythonProcessError(SpawnFailMessage(msg), -1, msg))

\* the setTimeout callback of executeShell
ShellOnTimeout(rec) ==
  Reject(kill(rec, "SIGKILL"),
         NewShellScriptError(TimeoutMessage(rec.actualTimeout), -1,
                             "Process timeout"))

\* child.on('close') of executeShell
ShellOnClose(rec, code) ==
  LET r == clearTimeout(rec)
  IN IF code = Code(0)
     THEN Resolve(r, Captured(r))
     ELSE Reject(r, NewShellScriptError(ShellExitMessage(code),
                                        CodeOrMinusOne(code),
                                        Trim(r.stderr)))

\* child.on('error') of executeShell
ShellOnError(rec, msg) ==
  Reject(clearTimeout(rec),
         NewShellScriptError(SpawnFailMessage(msg), -1, msg))

OnTimeout(rec) ==
  IF rec.executor = "executeShell" THEN ShellOnTimeout(rec)
  ELSE CommandOnTimeout(rec)
OnClose(rec, code) ==
  IF rec.executor = "executeShell" THEN ShellOnClose(rec, code)
  ELSE CommandOnClose(rec, code)
OnError(rec, msg) ==
  IF rec.executor = "executeShell" THEN ShellOnError(rec, msg)
  ELSE CommandOnError(rec, msg)

(***************************************************************************)
(* The API call.  call.pc is the call's position:                          *)
(*   idle      not made yet                                                *)
(*   mkdir     awaiting ensureOutputDirectories                            *)
(*   access    awaiting fs.promises.access in validatePath                 *)
(*   await     awaiting the promise of invocation call.cur                 *)
(*   decode    the runner's result is in call.ret, to be decoded           *)
(*   returned  fulfilled with call.ret                                     *)
(*   threw     rejected with call.ret                                      *)
(* call.listed is the listing readdir gave of the output directory, and    *)
(* call.rest the arguments of the call after the path: the outputBase and  *)
(* graphDir of the options, or the component identities.                   *)
(***************************************************************************)
Idle ==
  [op |-> "", language |-> "-", path |-> "-", pc |-> "idle", cur |-> 0,
   ret |-> <<>>, listed |-> <<>>, rest |-> <<>>]

Alive == uncaught = <<>>

Started(op, language, path, pc) ==
  [Idle EXCEPT !.op = op, !.language = language, !.path = path, !.pc = pc]

Threw(c, error) == [c EXCEPT !.pc = "threw", !.ret = error]

\* the runner method each validated operation of the bridge calls
RunnerOpOf(op) ==
  CASE op = "analyzeFile" -> "runSingleFileAnalysis"
    [] op = "analyzeWorkspace" -> "runSchemaExtraction"
    [] op = "analyzeWorkspaceComponents" -> "runAnalysis"
    [] op = "findPath" -> "runPathQuery"
    [] op = "getNeighbors" -> "runPathQuery"

\* the arguments the operation of call c hands to executeCommand, with
\* the options passed on as they came
RunnerArgs_NoDefaults(c) ==
  CASE c.op = "analyzeFile" -> runSingleFileAnalysis(c.path, c.language)
    [] c.op = "analyzeWorkspace" ->
         runSchemaExtraction(c.path, c.language, c.rest[1], c.rest[2])
    [] c.op = "analyzeWorkspaceComponents" ->
         runAnalysis(c.path, c.language, c.rest[1], c.rest[2])
    [] c.op = "findPath" -> runPathQuery(c.path, c.rest[2], c.rest[1])
    [] c.op = "getNeighbors" -> runPathQuery(c.path, c.rest[1], Absent)

\* the arguments the operation of call c hands to executeCommand: the call
\* of the runner method in the bridge, and the runner method
RunnerArgs(c) ==
  CASE c.op = "analyzeFile" -> runSingleFileAnalysis(c.path, c.language)
    [] c.op = "analyzeWorkspace" ->
         runSchemaExtraction(c.path, c.language, OrElse(c.rest[1], "fdep"),
                             OrElse(c.rest[2], "graph"))
    [] c.op = "analyzeWorkspaceComponents" ->
         runAnalysis(c.path, c.language, OrElse(c.rest[1], "fdep"),
                     OrElse(c.rest[2], "graph"))
    [] c.op = "findPath" -> runPathQuery(c.path, c.rest[2], c.rest[1])
    [] c.op = "getNeighbors" -> runPathQuery(c.path, c.rest[1], Absent)

\* validateLanguage with the membership test left out
validateLanguage_Unchecked(language) == <<>>

\* bridge.ts validateLanguage: the error it throws, if any
validateLanguage(language) ==
  IF ~isLanguageSupported(language)
  THEN <<InvalidLanguageError(language)>>
  ELSE <<>>

\* analyzeFile and analyzeWorkspace looking at the path before the language
AnalyzeStart_PathFirst(op, language, path, rest) ==
  /\ Alive /\ call.pc = "idle"
  /\ LET bad == validateLanguage(language)
         c == [Started(op, language, path, "idle") EXCEPT !.rest = rest]
     IN IF path \notin fs
        THEN /\ call' = Threw(c, FileNotFoundError(path))
             /\ runnerOps' = Append(runnerOps, RunnerOpOf(op))
        ELSE IF bad # <<>>
        THEN /\ call' = Threw(c, bad[1])
             /\ runnerOps' = runnerOps
        ELSE /\ call' = [c EXCEPT !.pc = "access"]
             /\ runnerOps' = Append(runnerOps, RunnerOpOf(op))
  /\ UNCHANGED <<config, heap, held, fs, inv, uncaught>>

\* analyzeFile and analyzeWorkspace up to their first await, which is the
\* access request of the runner method's validatePath
AnalyzeStart(op, language, path, rest) ==
  /\ Alive /\ call.pc = "idle"
  /\ LET bad == validateLanguage(language)
         c == [Started(op, language, path, "idle") EXCEPT !.rest = rest]
     IN IF bad # <<>>
        THEN /\ call' = Threw(c, bad[1])
             /\ runnerOps' = runnerOps
        ELSE /\ call' = [c EXCEPT !.pc = "access"]
             /\ runnerOps' = Append(runnerOps, RunnerOpOf(op))
  /\ UNCHANGED <<config, heap, held, fs, inv, uncaught>>

analyzeFile ==
  \E language \in Languages, path \in Paths :
    AnalyzeStart("analyzeFile", language, path, <<>>)

analyzeWorkspace ==
  \E language \in Languages, path \in Paths, options \in OutputOptions :
    AnalyzeStart("analyzeWorkspace", language, path, options)

\* analyzeWorkspaceComponents up to its first await, the first mkdir
analyzeWorkspaceComponents ==
  \E language \in Languages, path \in Paths :
    /\ Alive /\ call.pc = "idle"
    /\ LET op == "analyzeWorkspaceComponents"
           bad == validateLanguage(language)
           c == [Started(op, language, path, "idle")
                 EXCEPT !.rest = <<Absent, Absent>>]
       IN IF bad # <<>>
          THEN /\ call' = Threw(c, bad[1])
               /\ runnerOps' = runnerOps
          ELSE /\ call' = [c EXCEPT !.pc = "mkdir"]
               /\ runnerOps' = Append(runnerOps, "ensureOutputDirectories")
    /\ UNCHANGED <<config, heap, held, fs, inv, uncaught>>

\* findPath and getNeighbors: runPathQuery up to its validatePath
PathQueryStart(op, path, rest) ==
  /\ Alive /\ call.pc = "idle"
  /\ call' = [Started(op, "-", path, "access") EXCEPT !.rest = rest]
  /\ runnerOps' = Append(runnerOps, RunnerOpOf(op))
  /\ UNCHANGED <<config, heap, held, fs, inv, uncaught>>

\* findPath(graphPath, fromComponent, toComponent)
findPath ==
  \E path \in Paths, from \in Sources :
    PathQueryStart("findPath", path, <<from, "Z">>)

\* getNeighbors(graphPath, component)
getNeighbors == \E path \in Paths : PathQueryStart("getNeighbors", path, <<"Z">>)

\* an operation that reaches an executor with no await before it
SpawnStart(op, runnerOp, rec) ==
  /\ Alive /\ call.pc = "idle"
  /\ call' = [Started(op, "-", "-", "await") EXCEPT !.cur = 1]
  /\ runnerOps' = Append(runnerOps, runnerOp)
  /\ inv' = Append(inv, rec)
  /\ UNCHANGED <<config, heap, held, fs, uncaught>>

\* getModuleInfo, and the other queries that go through runBlackbox
getModuleInfo ==
  \E ok \in BOOLEAN :
    SpawnStart("getModuleInfo", "runBlackbox",
               executeCommand(runBlackboxArgs("getModuleInfo", <<"fdep", "M">>),
                              NotGiven, ok))

validateSetup ==
  \E ok \in BOOLEAN :
    SpawnStart("validateSetup", "validateSetup",
               executeCommand(<<"--version">>, VersionProbeTimeout, ok))

createEnv ==
  \E ok \in BOOLEAN :
    SpawnStart("createEnv", "createEnv", executeShell(createEnvArgs, ok))

runCreateFdepDataAndGraph ==
  \E ok \in BOOLEAN :
    SpawnStart("runCreateFdepDataAndGraph", "runCreateFdepDataAndGraph",
               executeCommand(
                 runCreateFdepDataAndGraphArgs("/repo", "fdep", "graph", FALSE),
                 NoTimeout, ok))

\* ensureOutputDirectories going on after a mkdir that failed
ensureOutputDirectories_KeepGoing ==
  \E failAt \in 0..2 :
    /\ Alive /\ call.pc = "mkdir"
    /\ fs' = fs \cup {<<OutputBaseDir, GraphDir>>[k] : k \in {1, 2} \ {failAt}}
    /\ call' = [call EXCEPT !.pc = "access"]
    /\ runnerOps' = Append(runnerOps, RunnerOpOf(call.op))
    /\ UNCHANGED <<config, heap, held, inv, uncaught>>

\* python-runner.ts ensureOutputDirectories, then runAnalysis up to its
\* validatePath; failAt is the mkdir that fails (0: none)
ensureOutputDirectories ==
  \E failAt \in 0..2 :
    /\ Alive /\ call.pc = "mkdir"
    /\ LET dirs == <<OutputBaseDir, GraphDir>>
           msg == "EACCES"
           made == {dirs[k] : k \in {j \in 1..2 : failAt = 0 \/ j < failAt}}
       IN /\ fs' = fs \cup made
          /\ IF failAt # 0
             THEN /\ call' = Threw(call, wrapError(PythonProcessError(
                       "Failed to create output directory " \o dirs[failAt]
                         \o ": " \o msg, -1, msg),
                       call.op))
                  /\ runnerOps' = runnerOps
             ELSE /\ call' = [call EXCEPT !.pc = "access"]
                  /\ runnerOps' = Append(runnerOps, RunnerOpOf(call.op))
    /\ UNCHANGED <<config, heap, held, inv, uncaught>>

\* validatePath with the rejection of access swallowed
validatePath_Swallowed ==
  \E ok \in BOOLEAN :
    /\ Alive /\ call.pc = "access"
    /\ call' = [call EXCEPT !.pc = "await", !.cur = Len(inv) + 1]
    /\ inv' = Append(inv, executeCommand(RunnerArgs(call), NotGiven, ok))
    /\ UNCHANGED <<config, heap, held, fs, runnerOps, uncaught>>

\* python-runner.ts validatePath, when the access request completes, and
\* the rest of the runner method: the executor call
validatePath ==
  \E ok \in BOOLEAN :
    /\ Alive /\ call.pc = "access"
    /\ IF call.path \in fs
       THEN /\ call' = [call EXCEPT !.pc = "await", !.cur = Len(inv) + 1]
            /\ inv' = Append(inv,
                             executeCommand(RunnerArgs(call), NotGiven, ok))
       ELSE /\ call' = Threw(call,
                             wrapError(FileNotFoundError(call.path), call.op))
            /\ inv' = inv
    /\ UNCHANGED <<config, heap, held, fs, runnerOps, uncaught>>

(***************************************************************************)
(* What the awaiting caller does when the promise it awaits settles        *)
(* (the microtasks that follow the callback in the same turn).             *)
(***************************************************************************)
\* the catch block rethrowing the probe's error as it is
SetupError_NoPrefix(e) == e

\* python-runner.ts validateSetup's catch block
SetupError(e) ==
  IF e.name = "PythonProcessError"
  THEN PythonProcessError(SetupFailMessage(e.message), e.exitCode, e.stderr)
  ELSE e

\* the operations of the bridge that catch and rethrow through wrapError
WrappingOps ==
  {"analyzeFile", "analyzeWorkspace", "analyzeWorkspaceComponents",
   "findPath", "getNeighbors", "validateSetup"}

\* the operations that hand the runner's result to a decoding step
DecodingOps ==
  {"analyzeFile", "analyzeWorkspace", "analyzeWorkspaceComponents",
   "findPath", "getNeighbors", "getModuleInfo"}

Rethrow(c, e) ==
  Threw(c, IF c.op \in WrappingOps THEN wrapError(e, c.op) ELSE e)

\* the continuation starting the command once more when it failed
Continue_Retry(c, p, ok) ==
  IF p.state = "rejected" /\ c.cur = 1
  THEN [call |-> [c EXCEPT !.cur = 2],
        spawn |-> <<executeCommand(<<"--version">>, NotGiven, ok)>>]
  ELSE IF p.state = "rejected"
  THEN [call |-> Rethrow(c, p.value), spawn |-> <<>>]
  ELSE IF c.op \in DecodingOps
  THEN [call |-> [c EXCEPT !.pc = "decode", !.ret = p.value], spawn |-> <<>>]
  ELSE [call |-> [c EXCEPT !.pc = "returned", !.ret = <<>>], spawn |-> <<>>]

\* the caller's continuation on promise p; spawn holds the invocation it
\* starts, if any (validateSetup's second probe)
Continue(c, p, ok) ==
  IF p.state = "rejected"
  THEN [call |-> Rethrow(c, IF c.op = "validateSetup"
                            THEN SetupError(p.value) ELSE p.value),
        spawn |-> <<>>]
  ELSE IF c.op = "validateSetup" /\ c.cur = 1
  THEN [call |-> [c EXCEPT !.cur = 2],
        spawn |-> <<executeCommand(Blackbox \o <<"--help">>,
                                   HelpProbeTimeout, ok)>>]
  ELSE IF c.op \in DecodingOps
  THEN [call |-> [c EXCEPT !.pc = "decode", !.ret = p.value], spawn |-> <<>>]
  ELSE [call |-> [c EXCEPT !.pc = "returned",
                           !.ret = IF c.op = "runCreateFdepDataAndGraph"
                                   THEN p.value ELSE <<>>],
        spawn |-> <<>>]

\* a callback of invocation i has run and left h = [rec, thrown]
Deliver(i, h, ok) ==
  LET settledNow == /\ inv[i].promise.state = "pending"
                    /\ h.rec.promise.state # "pending"
      next == IF settledNow /\ call.pc = "await" /\ call.cur = i
              THEN Continue(call, h.rec.promise, ok)
              ELSE [call |-> call, spawn |-> <<>>]
  IN /\ inv' = [inv EXCEPT ![i] = h.rec] \o next.spawn
     /\ call' = next.call
     /\ uncaught' = uncaught \o h.thrown
     /\ UNCHANGED <<config, heap, held, fs, runnerOps>>

Event(type, code, msg) == [type |-> type, code |-> code, msg |-> msg]

Seen(rec, type) == \E k \in 1..Len(rec.events) : rec.events[k].type = type

\* a child whose spawn failed emits error on the next tick, before any
\* timer can run, and nothing but its close after that
ErrorDue(rec) == ~rec.spawnOk /\ ~Seen(rec, "error")

(***************************************************************************)
(* The decoding step of the bridge: what the operation does with the       *)
(* result of its runner method once the await has handed it over.          *)
(***************************************************************************)
\* the operations that JSON.parse the captured stdout
JsonOps == {"analyzeFile", "analyzeWorkspace", "getModuleInfo"}

\* Decoded with analyzeWorkspace refusing a graph with an edge whose
\* endpoint is none of its nodes
Decoded_EndpointsChecked(op, result) ==
  CASE op \in JsonOps ->
         LET parsed == JSONparse(result.stdout)
             ids(g) == {g.fields.nodes.items[k].id :
                          k \in DOMAIN g.fields.nodes.items}
             dangling(g) ==
               \E k \in DOMAIN g.fields.edges.items :
                 {g.fields.edges.items[k].from, g.fields.edges.items[k].to}
                   \ ids(g) # {}
         IN IF /\ op = "analyzeWorkspace" /\ ~parsed.threw
               /\ parsed.value.type = "object"
               /\ "edges" \in DOMAIN parsed.value.fields
               /\ dangling(parsed.value)
            THEN [threw |-> TRUE,
                  value |-> CodeTraverseError("dangling edge", "DECODE_FAILURE",
                                              <<>>)]
            ELSE parsed
    [] op = "findPath" ->
         [threw |-> FALSE, value |-> parsePathResult(result.stdout)]
    [] op = "getNeighbors" ->
         [threw |-> FALSE, value |-> parseNeighborResult(result.stdout)]

\* the value an operation returns for the runner result, or what it throws
Decoded(op, result) ==
  CASE op \in JsonOps -> JSONparse(result.stdout)
    [] op = "findPath" ->
         [threw |-> FALSE, value |-> parsePathResult(result.stdout)]
    [] op = "getNeighbors" ->
         [threw |-> FALSE, value |-> parseNeighborResult(result.stdout)]

Finish(c, out) ==
  IF out.threw THEN Rethrow(c, out.value)
  ELSE [c EXCEPT !.pc = "returned", !.ret = out.value]

\* the statement after the await of analyzeFile, analyzeWorkspace, findPath,
\* getNeighbors and the runBlackbox queries
Decode ==
  /\ Alive /\ call.pc = "decode"
  /\ call.op # "analyzeWorkspaceComponents"
  /\ call' = Finish(call, Decoded(call.op, call.ret))
  /\ UNCHANGED <<config, heap, held, fs, runnerOps, inv, uncaught>>

\* bridge.ts loadComponentsFromDirectory, listing being what readdir gives
\* for the output directory; call.listed keeps it
loadComponentsFromDirectory ==
  \E listing \in DirListings :
    /\ Alive /\ call.pc = "decode"
    /\ call.op = "analyzeWorkspaceComponents"
    /\ LET files == getJsonFiles(<<OutputBaseDir>>, readdir(listing))
           out == LoadLoop([k \in DOMAIN files |-> files[k].text], <<>>)
       IN call' = Finish([call EXCEPT !.listed = listing],
                         IF out.threw
                         THEN [out EXCEPT !.value =
                                 wrapError(@, "loadComponentsFromDirectory")]
                         ELSE out)
    /\ UNCHANGED <<config, heap, held, fs, runnerOps, inv, uncaught>>

(***************************************************************************)
(* Events of an invocation.                                                *)
(***************************************************************************)
\* the data handlers appending to buffers all invocations share
OnData_SharedBuffers(invs, i, stream, ch) ==
  [k \in DOMAIN invs |->
     IF stream = "stdout"
     THEN [invs[k] EXCEPT !.stdout = Append(@, ch)]
     ELSE [invs[k] EXCEPT !.stderr = Append(@, ch)]]

\* the data handlers putting the new chunk in front of the buffer
OnData_Prepend(invs, i, stream, ch) ==
  [invs EXCEPT ![i] =
     IF stream = "stdout"
     THEN [@ EXCEPT !.stdout = <<ch>> \o @]
     ELSE [@ EXCEPT !.stderr = <<ch>> \o @]]

\* the data handlers of invocation i: `stdout += data`, `stderr += data`,
\* on the buffers its executor call declared
OnData(invs, i, stream, ch) ==
  [invs EXCEPT ![i] =
     IF stream = "stdout"
     THEN [@ EXCEPT !.stdout = Append(@, ch)]
     ELSE [@ EXCEPT !.stderr = Append(@, ch)]]

\* child.stdout.on('data') and child.stderr.on('data')
Data ==
  \E i \in DOMAIN inv, stream \in {"stdout", "stderr"}, ch \in Chars :
    /\ Alive
    /\ inv[i].spawnOk /\ ~Seen(inv[i], "close")
    /\ Len(inv[i].stdout) + Len(inv[i].stderr) < MaxChunks
    /\ inv' = OnData(inv, i, stream, ch)
    /\ UNCHANGED <<config, heap, held, fs, call, runnerOps, uncaught>>

\* the close event, with the exit code the child ended with
Close ==
  \E i \in DOMAIN inv, code \in ExitCodes \cup {SpawnFailCode},
     ok \in BOOLEAN :
    /\ Alive
    /\ ~Seen(inv[i], "close") /\ ~ErrorDue(inv[i])
    /\ IF inv[i].spawnOk THEN code \in ExitCodes ELSE code = SpawnFailCode
    /\ Deliver(i,
               OnClose([inv[i] EXCEPT
                          !.events = Append(@, Event("close", code, ""))],
                       code),
               ok)

\* the error event of a child that could not be spawned
Error ==
  \E i \in DOMAIN inv, msg \in SysMessages :
    /\ Alive
    /\ ErrorDue(inv[i])
    /\ Deliver(i,
               OnError([inv[i] EXCEPT
                          !.events = Append(@, Event("error", NullCode, msg))],
                       msg),
               FALSE)

\* the timer of an invocation expires
Timeout ==
  \E i \in DOMAIN inv :
    /\ Alive
    /\ inv[i].timeout = "pending" /\ ~ErrorDue(inv[i])
    /\ Deliver(i,
               OnTimeout([inv[i] EXCEPT
                            !.timeout = "fired",
                            !.events = Append(@, Event("timer", NullCode, ""))]),
               FALSE)

(***************************************************************************)
(* Specification.                                                          *)
(***************************************************************************)
Init ==
  /\ config \in Configs
  /\ heap = InitialHeap
  /\ held = <<>>
  /\ fs = InitialFs
  /\ call = Idle
  /\ runnerOps = <<>>
  /\ inv = <<>>
  /\ uncaught = <<>>

Next ==
  \/ analyzeFile
  \/ analyzeWorkspace
  \/ analyzeWorkspaceComponents
  \/ findPath
  \/ getNeighbors
  \/ getModuleInfo
  \/ validateSetup
  \/ createEnv
  \/ runCreateFdepDataAndGraph
  \/ ensureOutputDirectories
  \/ validatePath
  \/ Decode
  \/ loadComponentsFromDirectory
  \/ Data
  \/ Close
  \/ Error
  \/ Timeout

Spec == Init /\ [][Next]_vars

(***************************************************************************)
(* The decoders on their own: every operation that decodes, at the point   *)
(* where its invocation has closed with code 0 and handed over the text    *)
(* the engine printed.                                                     *)
(***************************************************************************)
\* the k-th identity of a reported path
Node(k) == "n" \o ToString(k)

\* the path line of a report: two blanks, then hops + 1 identities with
\* " → " between them
RECURSIVE PathNodes(_, _)
PathNodes(k, last) ==
  IF k = last THEN <<Node(k)>>
  ELSE <<Node(k), " ", Arrow, " ">> \o PathNodes(k + 1, last)
PathLine(hops) == <<" ", " ">> \o PathNodes(1, hops + 1)

\* the header the engine prints above a path (README.md, "Shortest path
\* from 'PgIntegrationApp::init' → 'PgIntegrationApp::make':")
HeaderLine(hops) ==
  <<"Shortest path from", " ", "'" \o Node(1) \o "'", " ", Arrow, " ",
    "'" \o Node(hops + 1) \o "':">>

PathReportLines ==
  {<<"No path found">>, <<>>}
    \cup {HeaderLine(h) : h \in 1..MaxHops}
    \cup {PathLine(h) : h \in 1..MaxHops}

\* the lines of a neighbour report: the two banners, edge lines in three
\* spacings, a banner that has the form of an edge line, and lines that
\* are neither
IntoLine == <<"Nodes with", " ", BannerInto, " ", "'X'", " ", "(1):">>
OutOfLine == <<"Nodes with", " ", BannerOutOf, " ", "'X'", " ", "(1):">>
EdgeLine(left, relation, right) ==
  <<" ", " ", left, " ", EdgeOpen, relation, EdgeClose, " ", right>>
NeighborReportLines ==
  {IntoLine, OutOfLine,
   EdgeLine("A", "calls", "X"),
   EdgeLine("X", "uses", "B"),
   <<"A", " ", " ", EdgeOpen, " ", "calls", " ", EdgeClose, " ", "X", " ">>,
   <<"A", EdgeOpen, "calls", EdgeClose, "X">>,
   <<"C", " ", EdgeOpen, BannerOutOf, EdgeClose, " ", "X">>,
   <<"Total:", " ", "2">>,
   <<>>}

JsonLines == {<<d>> : d \in JsonDocs} \cup {<<" ", "[]">>, <<"a">>, <<>>}

\* the lines an engine prints for an operation
LinesOf(op) ==
  CASE op \in JsonOps -> JsonLines
    [] op = "findPath" -> PathReportLines
    [] op = "getNeighbors" -> NeighborReportLines

\* the text made of the given lines
RECURSIVE Join(_)
Join(lines) ==
  IF lines = <<>> THEN <<>>
  ELSE IF Len(lines) = 1 THEN lines[1]
  ELSE lines[1] \o <<Newline>> \o Join(Tail(lines))

\* the invocation of an operation whose process has printed text and then
\* closed with code 0
ClosedWith(text) ==
  CommandOnClose([executeCommand(<<>>, NotGiven, TRUE) EXCEPT
                    !.stdout = text,
                    !.events = <<Event("close", Code(0), "")>>],
                 Code(0)).rec

DecodeInit ==
  \E op \in DecodingOps \ {"analyzeWorkspaceComponents"} :
    \E n \in 0..(IF op \in JsonOps THEN MaxJsonLines ELSE MaxLines) :
      \E lines \in [1..n -> LinesOf(op)] :
        LET rec == ClosedWith(Join(lines))
            awaiting == [Started(op, IF op \in {"analyzeFile", "analyzeWorkspace"}
                                 THEN "python" ELSE "-",
                                 IF op = "getModuleInfo" THEN "-"
                                 ELSE "/repo", "await")
                         EXCEPT !.cur = 1]
        IN /\ config = [timeout |-> NotGiven, pythonPath |-> Absent]
           /\ heap = InitialHeap
           /\ held = <<>>
           /\ fs = InitialFs
           /\ runnerOps = <<IF op = "getModuleInfo" THEN "runBlackbox"
                            ELSE RunnerOpOf(op)>>
           /\ inv = <<rec>>
           /\ call = Continue(awaiting, rec.promise, FALSE).call
           /\ uncaught = <<>>

DecodeNext == Decode

DecodeSpec == DecodeInit /\ [][DecodeNext]_vars

(***************************************************************************)
(* Properties.                                                             *)
(***************************************************************************)
LanguageOps == {"analyzeFile", "analyzeWorkspace", "analyzeWorkspaceComponents"}

PathRunnerOps ==
  {"runAnalysis", "runSchemaExtraction", "runSingleFileAnalysis",
   "runPathQuery"}

Invoked(ops) == \E k \in 1..Len(runnerOps) : runnerOps[k] \in ops

\* C1: a call of analyzeFile, analyzeWorkspace or analyzeWorkspaceComponents
\* whose language is none of the six supported ones has failed with
\* InvalidLanguage for that language, has invoked no runner operation and
\* has started no process, whatever its path argument.
C1_UnsupportedLanguageFailsFirst ==
  (/\ call.op \in LanguageOps
   /\ call.language \notin {"haskell", "python", "rescript", "typescript",
                            "rust", "golang"})
  => /\ call.pc = "threw"
     /\ call.ret = InvalidLanguageError(call.language)
     /\ call.ret.code = "INVALID_LANGUAGE"
     /\ runnerOps = <<>>
     /\ inv = <<>>

C1_Witness ==
  /\ call.op = "analyzeWorkspaceComponents"
  /\ call.language = "Python"
  /\ call.path = "/missing"
  /\ call.pc = "threw"
  /\ call.ret.name = "InvalidLanguageError"

\* C2: once a path-validating runner operation (runAnalysis,
\* runSchemaExtraction, runSingleFileAnalysis, runPathQuery) has checked a
\* path P that does not exist, the call has failed with PathNotFound
\* carrying exactly P and no process has been started.
C2_MissingPathFailsBeforeSpawn ==
  (/\ Invoked(PathRunnerOps)
   /\ call.pc # "access"
   /\ call.path \notin fs)
  => /\ call.pc = "threw"
     /\ call.ret.name = "FileNotFoundError"
     /\ call.ret.code = "FILE_NOT_FOUND"
     /\ call.ret.filePath = call.path
     /\ inv = <<>>

C2_Witness ==
  /\ call.op = "analyzeWorkspaceComponents"
  /\ Invoked({"runAnalysis"})
  /\ call.path = "/missing"
  /\ call.pc = "threw"
  /\ call.ret.name = "FileNotFoundError"
  /\ inv = <<>>

\* t is s without its leading and trailing whitespace
IsTrimOf(t, s) ==
  \E a \in 0..Len(s), b \in 0..Len(s) :
    /\ a <= b
    /\ t = SubSeq(s, a + 1, b)
    /\ \A k \in 1..a : s[k] \in Whitespace
    /\ \A k \in (b + 1)..Len(s) : s[k] \in Whitespace
    /\ t = <<>> \/ (t[1] \notin Whitespace /\ t[Len(t)] \notin Whitespace)

First(r) == r.events[1]
FirstIs(r, types) == r.events # <<>> /\ First(r).type \in types

\* the timeout an executeCommand invocation is configured with: the
\* override of the call, else the bridge's, else 60 seconds
ConfiguredTimeout(r) ==
  IF r.timeoutMs # 0 THEN r.timeoutMs
  ELSE IF config.timeout # 0 THEN config.timeout ELSE 60000

\* C3: an executeCommand invocation configured with timeout T whose timer
\* has expired while its process has emitted neither close nor error has
\* failed with the timeout error carrying T, and child.kill was called
\* exactly once, with SIGKILL.
C3_TimeoutFailsAndKillsOnce ==
  \A i \in DOMAIN inv :
    LET r == inv[i]
    IN (/\ r.executor = "executeCommand"
        /\ r.timeoutMs # -1
        /\ Seen(r, "timer")
        /\ ~Seen(r, "close") /\ ~Seen(r, "error"))
       => /\ r.promise.state = "rejected"
          /\ r.promise.value.name = "PythonProcessError"
          /\ r.promise.value.message = TimeoutMessage(ConfiguredTimeout(r))
          /\ r.kills = <<"SIGKILL">>

C3_Witness ==
  \E i \in DOMAIN inv :
    /\ inv[i].executor = "executeCommand"
    /\ config.timeout = 10 /\ inv[i].timeoutMs = NotGiven
    /\ Len(inv[i].events) = 1 /\ inv[i].events[1].type = "timer"
    /\ inv[i].promise.state = "rejected"
    /\ inv[i].promise.value.message = "Python process timed out after 10ms"
    /\ inv[i].kills = <<"SIGKILL">>

\* C4: once a close or error event of an invocation has been handled, no
\* timer of that invocation is still pending (so no kill can follow).
C4_TimerReleasedOnEveryExit ==
  \A i \in DOMAIN inv :
    (Seen(inv[i], "close") \/ Seen(inv[i], "error"))
      => inv[i].timeout # "pending"

\* C5 as stated: an executeCommand invocation is resolved exactly when its
\* process has closed with exit code 0, then with the trimmed streams, and
\* a close with another code c has failed it with exit code c and the
\* trimmed stderr.
C5_ResolvesIffClosedWithZero ==
  \A i \in DOMAIN inv :
    LET r == inv[i]
    IN r.executor = "executeCommand" =>
       /\ r.promise.state = "resolved"
            <=> (\E k \in 1..Len(r.events) :
                   r.events[k].type = "close" /\ r.events[k].code = Code(0))
       /\ r.promise.state = "resolved"
            => /\ IsTrimOf(r.promise.value.stdout, r.stdout)
               /\ IsTrimOf(r.promise.value.stderr, r.stderr)
       /\ \A k \in 1..Len(r.events) :
            (/\ r.events[k].type = "close"
             /\ ~r.events[k].code.null
             /\ r.events[k].code.n > 0)
            => /\ r.promise.state = "rejected"
               /\ r.promise.value.message
                    = PythonExitMessage(r.events[k].code)
               /\ r.promise.value.exitCode = r.events[k].code.n
               /\ IsTrimOf(r.promise.value.stderr, r.stderr)

\* C5 amended: an invocation is resolved exactly when the first of its
\* close, error and timer events is a close with exit code 0, and then with
\* exactly the trimmed captured stdout and stderr; an executeCommand
\* invocation whose first event is a close with another code c has failed
\* with the process error carrying c (-1 when the close has no numeric
\* code) and the trimmed captured stderr.
C5_FirstCloseDecides ==
  \A i \in DOMAIN inv :
    LET r == inv[i]
    IN /\ r.promise.state = "resolved"
            <=> (FirstIs(r, {"close"}) /\ First(r).code = Code(0))
       /\ r.promise.state = "resolved"
            => /\ IsTrimOf(r.promise.value.stdout, r.stdout)
               /\ IsTrimOf(r.promise.value.stderr, r.stderr)
       /\ (/\ r.executor = "executeCommand"
           /\ FirstIs(r, {"close"}) /\ First(r).code # Code(0))
          => /\ r.promise.state = "rejected"
             /\ r.promise.value.name = "PythonProcessError"
             /\ r.promise.value.message = PythonExitMessage(First(r).code)
             /\ r.promise.value.exitCode
                  = (IF First(r).code.null THEN -1 ELSE First(r).code.n)
             /\ IsTrimOf(r.promise.value.stderr, r.stderr)

C5_Witness ==
  \E i \in DOMAIN inv :
    /\ inv[i].executor = "executeCommand"
    /\ inv[i].stdout = <<" ", "a">> /\ inv[i].stderr = <<>>
    /\ Len(inv[i].events) = 2
    /\ inv[i].events[1].type = "close" /\ inv[i].events[1].code = Code(0)
    /\ inv[i].events[2].type = "timer"
    /\ inv[i].promise = [state |-> "resolved",
                         value |-> [stdout |-> <<"a">>, stderr |-> <<>>]]

\* C6: when the process of an executeCommand invocation could not be
\* started and its error event has been handled, the invocation has failed
\* with the spawn error carrying the system message, and neither the
\* promise nor the awaiting call holds any captured output.
C6_SpawnFailureCarriesMessage ==
  \A i \in DOMAIN inv :
    LET r == inv[i]
    IN (r.executor = "executeCommand" /\ ~r.spawnOk /\ Seen(r, "error"))
       => /\ r.promise.state = "rejected"
          /\ r.promise.value.name = "PythonProcessError"
          /\ r.promise.value.message
               = "Failed to spawn Python process: " \o First(r).msg
          /\ r.promise.value.stderr = First(r).msg
          /\ r.promise.value.exitCode = -1
          /\ "stdout" \notin DOMAIN r.promise.value
          /\ call.cur = i
               => /\ call.pc = "threw"
                  /\ call.ret.exitCode = -1
                  /\ call.ret.stderr = First(r).msg

C6_Witness ==
  \E i \in DOMAIN inv :
    /\ inv[i].executor = "executeCommand" /\ ~inv[i].spawnOk
    /\ Len(inv[i].events) = 2
    /\ inv[i].events[2].type = "close"
    /\ inv[i].promise.state = "rejected"
    /\ inv[i].promise.value.message
         = "Failed to spawn Python process: spawn uv ENOENT"
    /\ call.op = "analyzeFile" /\ call.pc = "threw"

\* which of the four outcomes a promise of invocation r holds
Outcome(r) ==
  IF r.promise.state = "pending" THEN "none"
  ELSE IF r.promise.state = "resolved" THEN "success"
  ELSE IF r.promise.value.message = TimeoutMessage(r.actualTimeout)
  THEN "timeout"
  ELSE IF \E m \in SysMessages : r.promise.value.message = SpawnFailMessage(m)
  THEN "spawn error"
  ELSE "non-zero exit"

\* the outcome the first event of an invocation stands for
OutcomeOf(e) ==
  CASE e.type = "timer" -> "timeout"
    [] e.type = "error" -> "spawn error"
    [] e.type = "close" /\ e.code = Code(0) -> "success"
    [] e.type = "close" /\ e.code # Code(0) -> "non-zero exit"

\* the call has taken its decoding step (on a resolved invocation)
HasDecoded(c) ==
  /\ c.op \in DecodingOps
  /\ c.pc \in {"returned", "threw"}
  /\ c.cur \in DOMAIN inv
  /\ inv[c.cur].promise.state = "resolved"

\* C7: in every state, whatever events of an executeCommand invocation
\* have been handled and in whatever order, its promise is pending while
\* none has, and otherwise holds the one outcome its first event stands
\* for; the call awaiting it has received that outcome and no other.
C7_FirstEventDecidesOutcome ==
  \A i \in DOMAIN inv :
    LET r == inv[i]
    IN r.executor = "executeCommand" =>
       /\ r.events = <<>> => Outcome(r) = "none"
       /\ r.events # <<>> => Outcome(r) = OutcomeOf(First(r))
       /\ (r.events # <<>> /\ call.cur = i /\ ~HasDecoded(call))
            => /\ call.pc # "await"
               /\ call.pc = "threw" <=> r.promise.state = "rejected"
               /\ (call.pc = "threw" /\ call.op # "validateSetup")
                    => call.ret = r.promise.value
               /\ call.pc \in {"decode", "returned"} /\ call.ret # <<>>
                    => call.ret = r.promise.value

C7_Witness ==
  \E i \in DOMAIN inv :
    /\ inv[i].executor = "executeCommand"
    /\ Len(inv[i].events) = 3
    /\ inv[i].events[1].type = "error"
    /\ inv[i].events[2].type = "timer"
    /\ inv[i].events[3].type = "close"
    /\ Outcome(inv[i]) = "spawn error"
    /\ call.pc = "threw"

\* C8: every invocation that is not explicitly unbounded settles: while it
\* is unsettled and has handled no close or error its timer is armed, and
\* when its timer is the first event, child.kill was called with SIGKILL
\* and nothing else and the invocation has failed with the timeout error.
C8_BoundedInvocationSettles ==
  \A i \in DOMAIN inv :
    LET r == inv[i]
    IN r.timeoutMs # NoTimeout =>
       /\ (/\ r.promise.state = "pending"
           /\ ~Seen(r, "close") /\ ~Seen(r, "error"))
            => r.timeout = "pending"
       /\ FirstIs(r, {"timer"})
            => /\ r.kills = <<"SIGKILL">>
               /\ r.promise.state = "rejected"
               /\ r.promise.value.message = TimeoutMessage(r.actualTimeout)

\* C9 as stated: the invocation of createEnv is never killed and its timer
\* never expires.
C9_SetupNeverTimedOut ==
  \A i \in DOMAIN inv :
    inv[i].executor = "executeShell"
      => inv[i].kills = <<>> /\ ~Seen(inv[i], "timer")

\* C9 amended: createEnv performs one preparation invocation, whose timer
\* is armed with the fixed ceiling of 300000 ms whatever timeout the bridge
\* is configured with; child.kill is called once, with SIGKILL, when that
\* timer expires before a close or error event, and never otherwise: a
\* close or error event releases the timer.
C9_SetupBoundedByFixedCeiling ==
  /\ call.op = "createEnv"
       => Len(inv) = 1 /\ inv[1].executor = "executeShell"
  /\ \A i \in DOMAIN inv :
       LET r == inv[i]
       IN r.executor = "executeShell" =>
          /\ r.actualTimeout = 300000
          /\ r.events = <<>> => r.timeout = "pending"
          /\ r.kills = (IF Seen(r, "timer") THEN <<"SIGKILL">> ELSE <<>>)
          /\ FirstIs(r, {"close", "error"})
               => r.timeout = "cleared" /\ r.kills = <<>>

C9_Witness ==
  /\ call.op = "createEnv"
  /\ config.timeout = 10
  /\ inv[1].events # <<>> /\ inv[1].events[1].type = "timer"
  /\ inv[1].kills = <<"SIGKILL">>

\* C10: an invocation made with the timeout argument -1, as
\* runCreateFdepDataAndGraph makes it, has no timer: child.kill is never
\* called, it never fails with the timeout error, and it is settled only
\* once a close or error event has been handled.
C10_DisabledTimeoutSetsNoTimer ==
  /\ (call.op = "runCreateFdepDataAndGraph" /\ inv # <<>>)
       => Len(inv) = 1 /\ inv[1].timeoutMs = -1
  /\ \A i \in DOMAIN inv :
       LET r == inv[i]
       IN r.timeoutMs = -1 =>
          /\ r.timeout = "none"
          /\ r.kills = <<>>
          /\ ~Seen(r, "timer")
          /\ r.promise.state # "pending" => FirstIs(r, {"close", "error"})
          /\ Outcome(r) # "timeout"

C10_Witness ==
  /\ call.op = "runCreateFdepDataAndGraph"
  /\ call.pc = "returned"
  /\ Len(inv[1].stdout) = 2
  /\ inv[1].events[1].type = "close"
  /\ inv[1].timeout = "none" /\ inv[1].kills = <<>>

(***************************************************************************)
(* Concurrent invocations: a caller makes up to MaxCalls calls of          *)
(* runBlackbox on one runner without awaiting any, and the events of       *)
(* their processes and timers arrive in any order.  Process i writes       *)
(* chunks that name it.                                                    *)
(***************************************************************************)
Mark(i) == "p" \o ToString(i)

RECURSIVE TotalChunks(_)
TotalChunks(invs) ==
  IF invs = <<>> THEN 0
  ELSE Len(Head(invs).stdout) + Len(Head(invs).stderr)
         + TotalChunks(Tail(invs))

\* python-runner.ts runBlackbox, called while earlier calls are in flight
runBlackbox ==
  \E ok \in BOOLEAN :
    /\ Alive /\ call.pc = "idle"
    /\ Len(inv) < MaxCalls
    /\ inv' = Append(inv,
                     executeCommand(runBlackboxArgs("getModuleInfo",
                                                    <<"fdep", "M">>),
                                    NotGiven, ok))
    /\ runnerOps' = Append(runnerOps, "runBlackbox")
    /\ UNCHANGED <<config, heap, held, fs, call, uncaught>>

\* a data event of process i, carrying a chunk process i wrote
OwnData ==
  \E i \in DOMAIN inv, stream \in {"stdout", "stderr"} :
    /\ Alive
    /\ inv[i].spawnOk /\ ~Seen(inv[i], "close")
    /\ TotalChunks(inv) < MaxChunks
    /\ inv' = OnData(inv, i, stream, Mark(i))
    /\ UNCHANGED <<config, heap, held, fs, call, runnerOps, uncaught>>

ConcurrentInit ==
  /\ config = [timeout |-> NotGiven, pythonPath |-> Absent]
  /\ heap = InitialHeap
  /\ held = <<>>
  /\ fs = InitialFs
  /\ call = Idle
  /\ runnerOps = <<>>
  /\ inv = <<>>
  /\ uncaught = <<>>

ConcurrentNext ==
  \/ runBlackbox
  \/ OwnData
  \/ Close
  \/ Error
  \/ Timeout

ConcurrentSpec == ConcurrentInit /\ [][ConcurrentNext]_vars

\* every chunk of s was written by process i
OnlyFrom(s, i) == \A k \in 1..Len(s) : s[k] = Mark(i)

\* C20: with several invocations in flight, in every state each invocation
\* holds in its buffers and in its result only chunks its own process
\* wrote, has been killed exactly when its own timer expired, and holds
\* the outcome its own first event stands for; and no step (a data, close,
\* error or timer event of one invocation, or the start of a new one)
\* changes anything of another invocation.
C20_InvocationsIndependent ==
  /\ [](\A i \in DOMAIN inv :
         LET r == inv[i]
         IN /\ OnlyFrom(r.stdout, i) /\ OnlyFrom(r.stderr, i)
            /\ r.promise.state = "resolved"
                 => /\ r.promise.value.stdout = r.stdout
                    /\ r.promise.value.stderr = r.stderr
            /\ r.kills = (IF Seen(r, "timer") THEN <<"SIGKILL">> ELSE <<>>)
            /\ Outcome(r) = (IF r.events = <<>> THEN "none"
                             ELSE OutcomeOf(First(r))))
  /\ [][\A i \in DOMAIN inv, j \in DOMAIN inv :
         i # j => inv'[i] = inv[i] \/ inv'[j] = inv[j]]_vars

C20_Witness ==
  /\ Len(inv) = 2
  /\ FirstIs(inv[1], {"timer"}) /\ inv[1].kills = <<"SIGKILL">>
  /\ Outcome(inv[1]) = "timeout"
  /\ inv[1].stdout = <<"p1">>
  /\ FirstIs(inv[2], {"close"}) /\ inv[2].kills = <<>>
  /\ inv[2].promise = [state |-> "resolved",
                       value |-> [stdout |-> <<"p2">>, stderr |-> <<>>]]

(***************************************************************************)
(* Decoding.                                                               *)
(***************************************************************************)
\* the text the call's invocation resolved with, and its lines
Handed == inv[1].promise.value.stdout
HandedLines == Split(Handed, Newline)

Decoding(op) == call.op = op /\ call.pc # "decode" /\ Len(inv) = 1
                /\ inv[1].promise.state = "resolved"

\* C11: when the engine has printed the header line "Shortest path from
\* 'n1' → 'nK':" followed by the path line "  n1 → ... → nK", findPath has
\* returned found = true with the path <<n1, ..., nK>>, for every number of
\* hops.
C11_PathReportDecoded ==
  \A h \in 1..MaxHops :
    (/\ Decoding("findPath")
     /\ inv[1].stdout = Join(<<HeaderLine(h), PathLine(h)>>))
    => /\ call.pc = "returned"
       /\ call.ret.found
       /\ call.ret.path = [k \in 1..(h + 1) |-> <<Node(k)>>]

\* C12: when the text handed to findPath holds no path arrow, findPath has
\* returned (not thrown) a result with found = false, no path field, and
\* the handed text, unparsed, as its message.
C12_NoArrowIsNotFound ==
  (/\ Decoding("findPath")
   /\ \A k \in 1..Len(inv[1].stdout) : inv[1].stdout[k] # "→")
  => /\ call.pc = "returned"
     /\ call.ret.found = FALSE
     /\ DOMAIN call.ret = {"found", "message"}
     /\ call.ret.message = Handed
     /\ IsTrimOf(call.ret.message, inv[1].stdout)

C12_Witness ==
  /\ Decoding("findPath")
  /\ inv[1].stdout = <<"No path found">>
  /\ call.pc = "returned"
  /\ call.ret = [found |-> FALSE, message |-> <<"No path found">>]

\* the lexemes of a line that are not whitespace
Words(line) == SelectSeq(line, LAMBDA x : x \notin Whitespace)

IsBanner(line) == Includes(line, "edges INTO") \/ Includes(line, "edges OUT OF")

\* line has the form <left> --[<relation>]--> <right>, blanks around the
\* two identities and the relation aside
IsEdgeLine(line) ==
  /\ ~IsBanner(line)
  /\ Len(Words(line)) = 5
  /\ Words(line)[2] = "--[" /\ Words(line)[4] = "]-->"
  /\ \A k \in {1, 3, 5} : Words(line)[k] \notin {"--[", "]-->"}
  /\ \E k \in 2..Len(line) : line[k] = "--[" /\ line[k - 1] \in Whitespace
  /\ \E k \in 1..(Len(line) - 1) :
       line[k] = "]-->" /\ line[k + 1] \in Whitespace

\* the banner that governs the k-th line: the last one above it
SectionOf(lines, k) ==
  LET above == {j \in 1..(k - 1) : IsBanner(lines[j])}
  IN IF above = {} THEN "none"
     ELSE LET last == CHOOSE j \in above : \A i \in above : i <= j
          IN IF Includes(lines[last], "edges INTO") THEN "incoming"
             ELSE "outgoing"

\* the entries the edge lines of a section stand for, in the order of the
\* lines from the k-th on
RECURSIVE Entries(_, _, _)
Entries(lines, k, section) ==
  IF k > Len(lines) THEN <<>>
  ELSE (IF IsEdgeLine(lines[k]) /\ SectionOf(lines, k) = section
        THEN IF section = "incoming"
             THEN <<[from |-> <<Words(lines[k])[1]>>,
                     relation |-> <<Words(lines[k])[3]>>]>>
             ELSE <<[to |-> <<Words(lines[k])[5]>>,
                     relation |-> <<Words(lines[k])[3]>>]>>
        ELSE <<>>)
       \o Entries(lines, k + 1, section)

\* C13: getNeighbors has returned, as incoming, one entry {from: left,
\* relation} for every line "<left> --[<relation>]--> <right>" whose last
\* banner above is an "edges INTO" banner and, as outgoing, one entry
\* {to: right, relation} for every such line whose last banner above is an
\* "edges OUT OF" banner, in the order of the lines and without the blanks
\* around identities and relation.
C13_EdgeLinesBecomeEntries ==
  Decoding("getNeighbors")
  => /\ call.ret.incoming = Entries(HandedLines, 1, "incoming")
     /\ call.ret.outgoing = Entries(HandedLines, 1, "outgoing")

C13_Witness ==
  /\ Decoding("getNeighbors")
  /\ Len(HandedLines) = 4
  /\ Includes(HandedLines[1], "edges INTO")
  /\ Includes(HandedLines[3], "edges OUT OF")
  /\ call.ret.incoming = <<[from |-> <<"A">>, relation |-> <<"calls">>]>>
  /\ call.ret.outgoing = <<[to |-> <<"B">>, relation |-> <<"uses">>]>>

\* C14: getNeighbors never fails in decoding; it has returned no more
\* entries than there are lines of the edge pattern below a banner, so
\* lines above the first banner and lines without the edge pattern have
\* contributed nothing, and for a text with neither banner both lists are
\* empty.
C14_OtherLinesIgnored ==
  Decoding("getNeighbors")
  => /\ call.pc = "returned"
     /\ DOMAIN call.ret = {"incoming", "outgoing"}
     /\ Len(call.ret.incoming) + Len(call.ret.outgoing)
          <= Cardinality({k \in 1..Len(HandedLines) :
                            /\ SectionOf(HandedLines, k) # "none"
                            /\ IsEdgeLine(HandedLines[k])})
     /\ (\A k \in 1..Len(HandedLines) : ~IsBanner(HandedLines[k]))
          => call.ret = [incoming |-> <<>>, outgoing |-> <<>>]

C14_Witness ==
  /\ Decoding("getNeighbors")
  /\ Len(HandedLines) = 3
  /\ IsEdgeLine(HandedLines[1])
  /\ HandedLines[2] = <<"Total:", " ", "2">>
  /\ HandedLines[3] = <<"A", "--[", "calls", "]-->", "X">>
  /\ call.pc = "returned"
  /\ call.ret = [incoming |-> <<>>, outgoing |-> <<>>]

\* the text handed over is one JSON document, blanks around it aside
WellFormed(text) ==
  \E k \in 1..Len(text) :
    /\ text[k] \in {"[]", "[{\"kind\":\"function\",...}]",
                    "[{\"kind\":\"class\",...}]", DanglingDoc,
                    "{\"nodes\":[],\"edges\":[]}", "{}", "[{}]"}
    /\ \A j \in 1..Len(text) : j # k => text[j] \in Whitespace

DecodingJson ==
  /\ call.op \in {"analyzeFile", "analyzeWorkspace", "getModuleInfo"}
  /\ Decoding(call.op)

\* the kinds of the taxonomy: the error classes types.ts defines
TaxonomyKinds ==
  {"CodeTraverseError", "PythonProcessError", "InvalidLanguageError",
   "FileNotFoundError"}

\* C15: when the stdout handed to analyzeFile, analyzeWorkspace or a
\* generic query is not well-formed JSON, the operation has failed with an
\* error of the taxonomy that is a decode failure: none of the language,
\* path and process kinds.
C15_MalformedJsonIsDecodeFailure ==
  (DecodingJson /\ ~WellFormed(Handed))
  => /\ call.pc = "threw"
     /\ call.ret.name \in TaxonomyKinds
     /\ call.ret.code \notin {"INVALID_LANGUAGE", "FILE_NOT_FOUND",
                               "PYTHON_PROCESS_ERROR", "UNKNOWN_ERROR"}

\* value has the shape the operation promises: a list of Components, or
\* for analyzeWorkspace a GraphData
HasShape(op, value) ==
  IF op = "analyzeWorkspace"
  THEN /\ value.type = "object"
       /\ {"nodes", "edges"} \subseteq DOMAIN value.fields
  ELSE /\ value.type = "array"
       /\ \A k \in 1..Len(value.items) :
            {"kind", "name", "full_component_path"}
              \subseteq DOMAIN value.items[k]

\* C16: a structured-decoding operation that has returned has returned a
\* value of the shape it promises; well-formed JSON of another shape has
\* made it fail.
C16_ShapeMismatchFails ==
  (DecodingJson /\ call.pc = "returned") => HasShape(call.op, call.ret)

\* C17: a call that has failed holds an error of one of the taxonomy kinds,
\* the runner's error unchanged when its invocation failed; a call that
\* has returned had no failed invocation.
C17_FailuresAreTaxonomyKinds ==
  /\ call.pc = "threw" => call.ret.name \in TaxonomyKinds
  /\ (/\ call.pc = "threw" /\ call.op # "validateSetup"
      /\ call.cur \in DOMAIN inv
      /\ inv[call.cur].promise.state = "rejected")
       => call.ret = inv[call.cur].promise.value
  /\ call.pc = "returned"
       => \A i \in DOMAIN inv : inv[i].promise.state = "resolved"

\* the runner methods that start the command of an operation
SpawningOps ==
  {"runAnalysis", "runSchemaExtraction", "runSingleFileAnalysis",
   "runPathQuery", "runBlackbox", "runCreateFdepDataAndGraph"}

\* C18: a call of an operation other than createEnv and validateSetup has
\* started at most one process, whatever became of it, and exactly one
\* once its language and path checks have passed; a call that failed
\* validation has started none.
C18_OneProcessPerCall ==
  call.op \notin {"", "createEnv", "validateSetup"}
  => /\ Len(inv) <= 1
     /\ (/\ Invoked(SpawningOps) /\ call.pc # "access"
         /\ call.path = "-" \/ call.path \in fs)
          => Len(inv) = 1
     /\ (/\ call.pc = "threw"
         /\ call.ret.name \in {"InvalidLanguageError", "FileNotFoundError"})
          => Len(inv) = 0

C18_Witness ==
  /\ call.op = "analyzeFile" /\ call.pc = "threw"
  /\ Len(inv) = 1
  /\ Len(inv[1].events) = 2
  /\ inv[1].events[1].type = "timer" /\ inv[1].events[2].type = "close"
  /\ call.ret.message = "Python process timed out after 60000ms"

\* C19: validateSetup starts the version probe (5000 ms) first and the
\* help probe (10000 ms) only once the version probe has closed with code
\* 0 as its first event; when a probe has failed, validateSetup has failed
\* with a process error whose message is the setup prefix followed by the
\* probe's message and whose exit code and stderr are the probe's, and no
\* probe was started after the failed one; it returns only when both
\* probes succeeded.
C19_ProbesInOrder ==
  call.op = "validateSetup"
  => /\ Len(inv) \in {1, 2}
     /\ inv[1].timeoutMs = 5000
     /\ Len(inv) = 2
          => /\ inv[2].timeoutMs = 10000
             /\ FirstIs(inv[1], {"close"}) /\ First(inv[1]).code = Code(0)
     /\ \A i \in DOMAIN inv :
          inv[i].promise.state = "rejected"
          => /\ Len(inv) = i
             /\ call.pc = "threw"
             /\ call.ret.name = "PythonProcessError"
             /\ call.ret.message
                  = "CodeTraverse setup validation failed: "
                      \o inv[i].promise.value.message
             /\ call.ret.exitCode = inv[i].promise.value.exitCode
             /\ call.ret.stderr = inv[i].promise.value.stderr
     /\ call.pc = "returned"
          => Len(inv) = 2 /\ inv[2].promise.state = "resolved"

C19_Witness ==
  /\ call.op = "validateSetup" /\ call.pc = "threw"
  /\ Len(inv) = 2
  /\ inv[1].promise.state = "resolved"
  /\ inv[2].stderr = <<"a", " ">>
  /\ FirstIs(inv[2], {"close"}) /\ First(inv[2]).code = Code(2)
  /\ call.ret.message = "CodeTraverse setup validation failed: "
                          \o "Python process exited with code 2"
  /\ call.ret.exitCode = 2
  /\ call.ret.stderr = <<"a">>

(***************************************************************************)
(* The output directory of analyzeWorkspaceComponents.                     *)
(***************************************************************************)
Loading == call.op = "analyzeWorkspaceComponents"

\* the files below a directory, at any depth and with any name
RECURSIVE Under(_, _)
Under(dir, entries) ==
  IF entries = <<>> THEN {}
  ELSE LET e == Head(entries)
       IN (IF e.kind = "dir" THEN Under(join(dir, e.name), e.entries)
           ELSE {[path |-> join(dir, e.name), text |-> e.text]})
          \cup Under(dir, Tail(entries))

\* the paths of the JSON files an output directory can hold, in
\* lexicographic order
PathsInOrder ==
  <<join(<<OutputBaseDir>>, <<"a", ".json">>),
    join(<<OutputBaseDir>>, <<"b", ".json">>),
    join(join(<<OutputBaseDir>>, <<"sub">>), <<"c", ".json">>),
    join(<<OutputBaseDir>>, <<"x", ".json">>)>>

\* the lists in the files that are at the given paths, concatenated in
\* the order of the paths
RECURSIVE Concatenated(_, _)
Concatenated(paths, files) ==
  IF paths = <<>> THEN <<>>
  ELSE LET here == {f \in files : f.path = Head(paths)}
       IN (IF here = {} THEN <<>>
           ELSE JsonValue((CHOOSE f \in here : TRUE).text[1]).items)
          \o Concatenated(Tail(paths), files)

\* C21: the list analyzeWorkspaceComponents returns is the concatenation
\* of the lists in all JSON files under the output directory, at any
\* depth, files with other names left out, in the lexicographic order of
\* their paths whatever the order readdir listed the entries in.
C21_AggregatedInPathOrder ==
  (Loading /\ call.pc = "returned")
  => call.ret = Concatenated(PathsInOrder,
                             Under(<<OutputBaseDir>>, readdir(call.listed)))

\* C22: in analyzeWorkspaceComponents the engine is started only when both
\* output directories exist, and the output directory is read only when
\* the engine's first event was a close with code 0; when a mkdir failed
\* the call failed with a process error of exit code -1 naming the
\* directory, no process was started, and after a failure on the first
\* directory the second one was not created.
C22_DirectoriesThenEngineThenRead ==
  Loading
  => /\ inv # <<>> => {OutputBaseDir, GraphDir} \subseteq fs
     /\ (call.pc \in {"decode", "returned"} \/ call.listed # <<>>)
          => /\ Len(inv) = 1
             /\ FirstIs(inv[1], {"close"}) /\ First(inv[1]).code = Code(0)
     /\ ~({OutputBaseDir, GraphDir} \subseteq fs)
          => /\ call.pc \in {"idle", "mkdir", "threw"}
             /\ inv = <<>>
             /\ (call.pc = "threw" /\ call.ret.name = "PythonProcessError")
                  => /\ call.ret.exitCode = -1
                     /\ call.ret.stderr = "EACCES"
                     /\ \E dir \in {OutputBaseDir, GraphDir} \ fs :
                          call.ret.message
                            = "Failed to create output directory " \o dir
                                \o ": EACCES"
                     /\ OutputBaseDir \notin fs => GraphDir \notin fs
                     /\ runnerOps = <<"ensureOutputDirectories">>

C22_Witness ==
  /\ Loading /\ call.pc = "threw"
  /\ call.ret.message
       = "Failed to create output directory /wd/fdep: EACCES"
  /\ call.ret.exitCode = -1
  /\ fs = InitialFs
  /\ inv = <<>>

\* C29: no two components of the list analyzeWorkspaceComponents returns
\* have the same full_component_path.
C29_ComponentPathsUnique ==
  (Loading /\ call.pc = "returned")
  => \A i, j \in DOMAIN call.ret :
       i # j => call.ret[i].full_component_path
                  # call.ret[j].full_component_path

\* C25: analyzeWorkspace handed a graph document with an edge whose
\* endpoint is none of the document's nodes returns it, every node and
\* every edge as in the document, and does not fail.
C25_DanglingEdgesKept ==
  (/\ Decoding("analyzeWorkspace")
   /\ Len(Handed) = 1 /\ Handed[1] = DanglingDoc
   /\ call.pc # "decode")
  => /\ call.pc = "returned"
     /\ call.ret.fields.nodes.items
          = <<[id |-> "a", category |-> "function"]>>
     /\ call.ret.fields.edges.items
          = <<[from |-> "a", to |-> "zz", relation |-> "calls"]>>

C25_Witness ==
  /\ Decoding("analyzeWorkspace") /\ call.pc = "returned"
  /\ inv[1].stdout = <<DanglingDoc, Newline>>
  /\ Len(call.ret.fields.edges.items) = 1
  /\ \A k \in DOMAIN call.ret.fields.nodes.items :
       call.ret.fields.nodes.items[k].id # call.ret.fields.edges.items[1].to

(***************************************************************************)
(* What the engine is started with.                                        *)
(***************************************************************************)
\* the invocation of the call has been started
Spawned(op) == call.op = op /\ Len(inv) = 1

\* the code of a path query: find_path on the given arguments
FindPath(arguments) ==
  "import codetraverse.path as codepath;codepath.find_path(" \o arguments
    \o ")"
Quoted(s) == "\"" \o s \o "\""

\* the last of the arguments given to spawn
LastArg == inv[1].spawned.args[Len(inv[1].spawned.args)]

\* C26 as stated: findPath(graphPath, from, to) starts the engine on the
\* graph path, the target `to` and the source `from`, and returns the text
\* decoded as a path report; getNeighbors(graphPath, c) starts it on the
\* graph path and the target c only, and returns the text decoded as a
\* neighbor report.
C26_PathQueryArguments ==
  /\ Spawned("findPath")
       => /\ LastArg = FindPath(Quoted(call.path) \o ", "
                                  \o Quoted(call.rest[2]) \o ", "
                                  \o Quoted(call.rest[1]))
          /\ call.pc = "returned" => call.ret = parsePathResult(Handed)
  /\ Spawned("getNeighbors")
       => /\ LastArg = FindPath(Quoted(call.path) \o ", "
                                  \o Quoted(call.rest[1]))
          /\ call.pc = "returned" => call.ret = parseNeighborResult(Handed)

\* C26, amended: findPath(graphPath, from, to) with a non-empty `from`
\* starts the engine on the graph path, the target `to` and the source
\* `from`; with an empty `from` it starts it on the graph path and the
\* target only, as getNeighbors(graphPath, c) does with c; findPath returns
\* the text decoded as a path report and getNeighbors as a neighbor report.
C26_NonEmptySourceIsPassed ==
  /\ Spawned("findPath")
       => /\ LastArg = FindPath(Quoted(call.path) \o ", "
                                  \o Quoted(call.rest[2])
                                  \o (IF call.rest[1] = "" THEN ""
                                      ELSE ", " \o Quoted(call.rest[1])))
          /\ call.pc = "returned" => call.ret = parsePathResult(Handed)
  /\ Spawned("getNeighbors")
       => /\ LastArg = FindPath(Quoted(call.path) \o ", "
                                  \o Quoted(call.rest[1]))
          /\ call.pc = "returned" => call.ret = parseNeighborResult(Handed)

C26_Witness ==
  /\ Spawned("findPath") /\ call.pc = "returned"
  /\ call.rest = <<"A", "Z">>
  /\ LastArg = "import codetraverse.path as codepath;"
                 \o "codepath.find_path(\"/repo\", \"Z\", \"A\")"
  /\ call.ret = [found |-> FALSE, message |-> <<"a">>]

\* the engine invocations that are analyses
IsAnalysis(i) ==
  /\ i = 1
  /\ call.op \in {"analyzeFile", "analyzeWorkspace",
                  "analyzeWorkspaceComponents"}

\* the value that follows the option name in the arguments, if any
ValueOf(args, name) ==
  LET at == {k \in 1..(Len(args) - 1) : args[k] = name}
  IN IF at = {} THEN Absent ELSE args[(CHOOSE k \in at : TRUE) + 1]

\* C27: an analysis is spawned with the configured Python executable
\* ('python' when none is configured) and with the arguments: the module
\* designator, the fixed options and switches of the runner method, then
\* --OUTPUT_BASE with its value and --GRAPH_DIR with its value, in this
\* order, each there exactly when a value was supplied.
C27_SpawnedWithPythonAndArguments ==
  \A i \in DOMAIN inv :
    IsAnalysis(i)
    => /\ inv[i].spawned.command
            = (IF config.pythonPath = Absent THEN "python"
               ELSE config.pythonPath)
       /\ inv[i].spawned.args
            = <<"-m", "codetraverse.utils.blackbox">>
                \o (CASE call.op = "analyzeFile" ->
                           <<"--SINGLE_FILE", call.path,
                             "--LANGUAGE", call.language,
                             "--OUTPUT_FORMAT", "json", "--QUIET">>
                      [] call.op = "analyzeWorkspace" ->
                           <<"--ROOT_DIR", call.path,
                             "--LANGUAGE", call.language,
                             "--JSON_SCHEMA", "--QUIET">>
                      [] call.op = "analyzeWorkspaceComponents" ->
                           <<"--ROOT_DIR", call.path,
                             "--LANGUAGE", call.language>>)
                \o (IF call.op = "analyzeFile" THEN <<>>
                    ELSE <<"--OUTPUT_BASE",
                           ValueOf(inv[i].spawned.args, "--OUTPUT_BASE"),
                           "--GRAPH_DIR",
                           ValueOf(inv[i].spawned.args, "--GRAPH_DIR")>>)

\* C28 as stated: analyzeWorkspace starts the engine with output base
\* 'fdep' and graph directory 'graph' when the options omit them, and with
\* the caller's outputBase and graphDir unchanged when they are given.
C28_DefaultsOnlyWhenOmitted ==
  Spawned("analyzeWorkspace")
  => /\ ValueOf(inv[1].spawned.args, "--OUTPUT_BASE")
          = (IF call.rest[1] = Absent THEN "fdep" ELSE call.rest[1])
     /\ ValueOf(inv[1].spawned.args, "--GRAPH_DIR")
          = (IF call.rest[2] = Absent THEN "graph" ELSE call.rest[2])

\* C28, amended: analyzeWorkspace starts the engine with output base 'fdep'
\* and graph directory 'graph' when the options omit them or give the empty
\* string, and with the caller's outputBase and graphDir unchanged when
\* they are given and not empty.
C28_DefaultsWhenOmittedOrEmpty ==
  Spawned("analyzeWorkspace")
  => /\ ValueOf(inv[1].spawned.args, "--OUTPUT_BASE")
          = (IF call.rest[1] \in {Absent, ""} THEN "fdep" ELSE call.rest[1])
     /\ ValueOf(inv[1].spawned.args, "--GRAPH_DIR")
          = (IF call.rest[2] \in {Absent, ""} THEN "graph"
             ELSE call.rest[2])

C28_Witness ==
  /\ Spawned("analyzeWorkspace")
  /\ call.rest = <<"out", "graphs">>
  /\ inv[1].spawned.args
       = <<"run", "-m", "codetraverse.utils.blackbox", "--ROOT_DIR", "/repo",
           "--LANGUAGE", "rust", "--JSON_SCHEMA", "--QUIET",
           "--OUTPUT_BASE", "out", "--GRAPH_DIR", "graphs">>

(***************************************************************************)
(* The synchronous operations, called one after another on this bridge     *)
(* and on another one, and the caller writing to the lists it was given.   *)
(***************************************************************************)
\* getSupportedLanguages handing out the array of the bridge itself
getSupportedLanguages_SameArray ==
  \E b \in Bridges :
    /\ Alive /\ call.pc \in {"idle", "returned"}
    /\ Len(held) < MaxLists
    /\ heap' = heap
    /\ held' = Append(held, b)
    /\ call' = [Started("getSupportedLanguages", "-", "-", "returned")
                EXCEPT !.ret = [bridge |-> b, items |-> heap[b]]]
    /\ UNCHANGED <<config, fs, runnerOps, inv, uncaught>>

\* bridge.ts getSupportedLanguages of bridge b: a new array with the
\* elements of the field; call.ret.items is what it held when returned
getSupportedLanguages ==
  \E b \in Bridges :
    /\ Alive /\ call.pc \in {"idle", "returned"}
    /\ Len(held) < MaxLists
    /\ heap' = Append(heap, heap[b])
    /\ held' = Append(held, Len(heap) + 1)
    /\ call' = [Started("getSupportedLanguages", "-", "-", "returned")
                EXCEPT !.ret = [bridge |-> b, items |-> heap[b]]]
    /\ UNCHANGED <<config, fs, runnerOps, inv, uncaught>>

\* a call of isLanguageSupported on this bridge
CheckLanguage ==
  \E language \in Languages :
    /\ Alive /\ call.pc \in {"idle", "returned"}
    /\ call' = [Started("isLanguageSupported", language, "-", "returned")
                EXCEPT !.ret = isLanguageSupported(language)]
    /\ UNCHANGED <<config, heap, held, fs, runnerOps, inv, uncaught>>

\* the caller writing once to a list it holds: push, pop, or an assignment
\* to the first element
Mutate ==
  \E k \in DOMAIN held, how \in {"push", "pop", "set"} :
    /\ Alive
    /\ heap[held[k]] = supportedLanguages
    /\ heap' = [heap EXCEPT ![held[k]] =
                  CASE how = "push" -> Append(@, "java")
                    [] how = "pop" -> SubSeq(@, 1, Len(@) - 1)
                    [] how = "set" -> [@ EXCEPT ![1] = "java"]]
    /\ UNCHANGED <<config, held, fs, call, runnerOps, inv, uncaught>>

LanguageNext ==
  \/ getSupportedLanguages
  \/ CheckLanguage
  \/ Mutate

LanguageSpec == Init /\ [][LanguageNext]_vars

\* C23: isLanguageSupported has returned true exactly for 'haskell',
\* 'python', 'rescript', 'typescript', 'rust' and 'golang', and
\* getSupportedLanguages has returned exactly these six, in this order.
C23_TheSixLanguages ==
  /\ call.op = "isLanguageSupported"
       => call.ret = (call.language \in {"haskell", "python", "rescript",
                                         "typescript", "rust", "golang"})
  /\ call.op = "getSupportedLanguages"
       => call.ret.items = <<"haskell", "python", "rescript", "typescript",
                             "rust", "golang">>

C23_Witness ==
  /\ call.op = "isLanguageSupported"
  /\ call.language = "Python" /\ call.ret = FALSE

\* some list the caller holds is no longer what it was given
Mutated == \E k \in DOMAIN held : heap[held[k]] # supportedLanguages

\* C30: no step changes the configuration of the bridge or the
\* supported-language array of any bridge, whatever the caller did to the
\* lists getSupportedLanguages gave it; and once the caller has changed
\* such a list, getSupportedLanguages still gives the six languages and
\* isLanguageSupported still answers for the six.
C30_BridgeStateNeverChanges ==
  /\ [][/\ config' = config
        /\ \A b \in Bridges : heap'[b] = heap[b]]_vars
  /\ [](Mutated
          => /\ \A b \in Bridges : heap[b] = supportedLanguages
             /\ call.op = "getSupportedLanguages"
                  => call.ret.items = supportedLanguages
             /\ call.op = "isLanguageSupported"
                  => call.ret
                       = (\E k \in 1..6 : supportedLanguages[k] = call.language))

C30_Witness ==
  /\ Len(held) = 2
  /\ heap[held[1]] = [supportedLanguages EXCEPT ![1] = "java"]
  /\ heap[held[2]] = Append(supportedLanguages, "java")
  /\ call.op = "isLanguageSupported"
  /\ call.language = "java" /\ call.ret = FALSE

(***************************************************************************)
(* The text decoders applied again and again by one bridge; held keeps     *)
(* each text with what it was decoded to.                                  *)
(***************************************************************************)
RepeatTexts ==
  {Join(<<IntoLine, EdgeLine("A", "calls", "X")>>),
   Join(<<OutOfLine, EdgeLine("X", "uses", "B")>>),
   EdgeLine("X", "uses", "B"),
   Join(<<HeaderLine(1), PathLine(1)>>),
   PathLine(2),
   <<"A", " ", Arrow>>,
   <<"No path found">>}

\* findPath or getNeighbors from the point where the engine has printed
\* text and closed with code 0
Redecode ==
  \E op \in {"findPath", "getNeighbors"}, text \in RepeatTexts :
    /\ Len(held) < MaxDecodes
    /\ held' = Append(held,
                      [op |-> op, text |-> text,
                       ret |-> Decoded(op, [stdout |-> text]).value])
    /\ UNCHANGED <<config, heap, fs, call, runnerOps, inv, uncaught>>

RepeatSpec == Init /\ [][Redecode]_vars

StreamData ==
  \E stream \in {"stdout", "stderr"}, ch \in {" ", "a", "b"} :
    /\ Alive
    /\ inv[1].spawnOk /\ ~Seen(inv[1], "close")
    /\ Len(held) < MaxChunks
    /\ inv' = OnData(inv, 1, stream, ch)
    /\ held' = Append(held, [stream |-> stream, chunk |-> ch])
    /\ UNCHANGED <<config, heap, fs, call, runnerOps, uncaught>>

StreamInit ==
  /\ config = [timeout |-> NotGiven, pythonPath |-> Absent]
  /\ heap = InitialHeap
  /\ held = <<>>
  /\ fs = InitialFs
  /\ call = Idle
  /\ runnerOps = <<"runBlackbox">>
  /\ uncaught = <<>>
  /\ \E timeoutMs \in {NotGiven, NoTimeout}, ok \in BOOLEAN :
       inv = <<executeCommand(runBlackboxArgs("getModuleInfo",
                                              <<"fdep", "M">>),
                              timeoutMs, ok)>>

StreamSpec == StreamInit /\ [][StreamData \/ Close \/ Error \/ Timeout]_vars

\* the chunks delivered on a stream, in the order of delivery
RECURSIVE DeliveredOn(_, _)
DeliveredOn(log, stream) ==
  IF log = <<>> THEN <<>>
  ELSE (IF Head(log).stream = stream THEN <<Head(log).chunk>> ELSE <<>>)
         \o DeliveredOn(Tail(log), stream)

\* t is s without its leading and trailing whitespace, and nothing else
\* is removed
Stripped(s, t) ==
  /\ t # <<>> => Head(t) \notin Whitespace /\ t[Len(t)] \notin Whitespace
  /\ \E a \in 0..Len(s) :
       /\ a + Len(t) <= Len(s)
       /\ \A k \in 1..Len(s) :
            IF k > a /\ k <= a + Len(t) THEN s[k] = t[k - a]
            ELSE s[k] \in Whitespace

\* C32: the buffers of an invocation hold the chunks delivered on their
\* own stream, in the order of delivery, and nothing of the other stream;
\* the stdout and stderr a successful invocation returns are those
\* concatenations without their leading and trailing whitespace, and the
\* details of an exit-code failure are the stderr stripped the same way.
C32_StreamsInDeliveryOrder ==
  LET r == inv[1]
      out == DeliveredOn(held, "stdout")
      err == DeliveredOn(held, "stderr")
  IN /\ r.stdout = out /\ r.stderr = err
     /\ r.promise.state = "resolved"
          => /\ Stripped(out, r.promise.value.stdout)
             /\ Stripped(err, r.promise.value.stderr)
     /\ (r.promise.state = "rejected" /\ FirstIs(r, {"close"}))
          => Stripped(err, r.promise.value.stderr)

C32_Witness ==
  /\ held = << [stream |-> "stdout", chunk |-> "a"],
               [stream |-> "stdout", chunk |-> "b"] >>
  /\ inv[1].promise = [state |-> "resolved",
                       value |-> [stdout |-> <<"a", "b">>,
                                  stderr |-> <<>>]]

\* C33: in analyzeFile, analyzeWorkspace and analyzeWorkspaceComponents
\* the language is validated before the path and the path before the
\* process is started: the access request is pending only for a supported
\* language and with no process started, and a process exists only for a
\* supported language and an existing path, started by the runner
\* operation that checked the path.  A call of analyzeFile or
\* analyzeWorkspace with an unsupported language has failed with
\* InvalidLanguage, also when its path does not exist, has never asked the
\* filesystem anything and has invoked no runner operation.
C33_LanguageThenPathThenSpawn ==
  call.op \in LanguageOps
  => /\ call.pc = "access"
          => isLanguageSupported(call.language) /\ inv = <<>>
     /\ inv # <<>>
          => /\ isLanguageSupported(call.language) /\ call.path \in fs
             /\ runnerOps[Len(runnerOps)] = RunnerOpOf(call.op)
     /\ (/\ call.op \in {"analyzeFile", "analyzeWorkspace"}
         /\ ~isLanguageSupported(call.language))
          => /\ call.pc = "threw"
             /\ call.ret.name = "InvalidLanguageError"
             /\ runnerOps = <<>> /\ inv = <<>>

C33_Witness ==
  /\ call.op = "analyzeFile"
  /\ call.language = "java"
  /\ call.path = "/missing"
  /\ call.pc = "threw"
  /\ call.ret = InvalidLanguageError("java")

\* C34: a call of analyzeWorkspaceComponents that has failed a
\* precondition (InvalidLanguage for its language, or PathNotFound for its
\* root path) has created no output directory and has started no process.
C34_FailedPreconditionLeavesNoTrace ==
  (/\ call.op = "analyzeWorkspaceComponents"
   /\ call.pc = "threw"
   /\ call.ret.name \in {"InvalidLanguageError", "FileNotFoundError"})
  => /\ fs = InitialFs
     /\ inv = <<>>

(***************************************************************************)
(* Paths.  A path is the sequence of its segments; an absolute path        *)
(* starts with the root "/".  In this part `config` holds the fields of    *)
(* the runner after construction, and `held` the calls made so far.        *)
(***************************************************************************)
MaxPathCalls == 2

\* process.cwd()
ProcessCwd == <<"/", "wd">>

\* path.isAbsolute
isAbsolute(p) == p # <<>> /\ Head(p) = "/"

\* the normalisation path.resolve ends with: "." is dropped, ".." drops
\* the segment before it and is dropped itself at the root
RECURSIVE Normalize(_, _)
Normalize(segments, acc) ==
  IF segments = <<>> THEN acc
  ELSE LET h == Head(segments)
       IN Normalize(Tail(segments),
                    IF h = "." THEN acc
                    ELSE IF h = ".."
                    THEN (IF acc = <<>> THEN acc
                          ELSE SubSeq(acc, 1, Len(acc) - 1))
                    ELSE Append(acc, h))

\* path.resolve(from, to): the arguments are taken from the right until
\* an absolute one is met, and process.cwd() is used when none is
resolve(from, to) ==
  LET joined == IF isAbsolute(to) THEN to
                ELSE IF isAbsolute(from) THEN from \o to
                ELSE ProcessCwd \o from \o to
  IN <<"/">> \o Normalize(Tail(joined), <<>>)

\* getAbsolutePath resolving whatever it is given
getAbsolutePath_AlwaysResolve(relativePath) ==
  resolve(config.workingDirectory, relativePath)

\* python-runner.ts getAbsolutePath
getAbsolutePath(relativePath) ==
  IF isAbsolute(relativePath) THEN relativePath
  ELSE resolve(config.workingDirectory, relativePath)

\* a call of getAbsolutePath, on a new path or on a path it returned
AbsolutePathCall ==
  \E p \in {<<"/", "abs">>, <<"/", "abs", "..", "x">>, <<"fdep">>,
            <<"..", "fdep">>, <<".">>, <<>>}
           \cup {held[k].ret : k \in {j \in DOMAIN held :
                                        held[j].op = "getAbsolutePath"}} :
    /\ Len(held) < MaxPathCalls
    /\ held' = Append(held, [op |-> "getAbsolutePath", arg |-> p,
                             ret |-> getAbsolutePath(p)])
    /\ UNCHANGED <<config, heap, fs, call, runnerOps, inv, uncaught>>

\* the directories of one analyzeWorkspaceComponents call: the one
\* ensureOutputDirectories creates, the one --OUTPUT_BASE names to the
\* engine, whose working directory is codetraversePath, and the one
\* getJsonFiles hands to readdir, which the process resolves
OutputDirectoriesCall ==
  \E given \in {<<>>, <<"out">>, <<"/", "abs", "out">>} :
    LET outputBase == IF given = <<>> THEN <<"fdep">> ELSE given
    IN /\ Len(held) < MaxPathCalls
       /\ held' = Append(held,
            [op |-> "analyzeWorkspaceComponents", arg |-> given,
             created |-> getAbsolutePath(outputBase),
             written |-> resolve(resolve(ProcessCwd,
                                         config.codetraversePath),
                                 outputBase),
             read |-> resolve(ProcessCwd, outputBase)])
       /\ UNCHANGED <<config, heap, fs, call, runnerOps, inv, uncaught>>

\* python-runner.ts constructor
PathInit ==
  /\ \E wd \in {<<>>, <<"/", "wd">>, <<"/", "work">>, <<"work">>},
        ct \in {<<>>, <<".">>, <<"/", "opt", "codetraverse">>} :
       config = [timeout |-> DefaultTimeout, pythonPath |-> "python",
                 workingDirectory |-> IF wd = <<>> THEN ProcessCwd ELSE wd,
                 codetraversePath |-> IF ct = <<>> THEN <<"codetraverse">>
                                      ELSE ct]
  /\ heap = InitialHeap
  /\ held = <<>>
  /\ fs = InitialFs
  /\ call = Idle
  /\ runnerOps = <<>>
  /\ inv = <<>>
  /\ uncaught = <<>>

PathSpec == PathInit /\ [][AbsolutePathCall \/ OutputDirectoriesCall]_vars

\* C35: in every analyzeWorkspaceComponents call the directory that is
\* created beforehand, the directory the engine is told to write to and
\* the directory the components are read from are one directory, whatever
\* the output base and the working directory.
C35_OneOutputDirectory ==
  \A k \in DOMAIN held :
    held[k].op = "analyzeWorkspaceComponents"
      => /\ held[k].created = held[k].written
         /\ held[k].written = held[k].read

\* C38: getAbsolutePath returns an absolute path as it is, returns for a
\* relative path the absolute path it names from the working directory,
\* and applied to its own result returns that result.
C38_AbsolutePathIdempotent ==
  \A k \in DOMAIN held :
    LET c == held[k]
        wd == IF isAbsolute(config.workingDirectory)
              THEN config.workingDirectory
              ELSE ProcessCwd \o config.workingDirectory
    IN c.op = "getAbsolutePath"
         => /\ isAbsolute(c.arg) => c.ret = c.arg
            /\ ~isAbsolute(c.arg)
                 => /\ isAbsolute(c.ret)
                    /\ c.ret = <<"/">> \o Normalize(Tail(wd) \o c.arg, <<>>)
            /\ (c.arg = <<"fdep">> /\ wd = <<"/", "work">>)
                 => c.ret = <<"/", "work", "fdep">>
            /\ (c.arg = <<"..", "fdep">> /\ wd = <<"/", "work">>)
                 => c.ret = <<"/", "fdep">>
            /\ getAbsolutePath(c.ret) = c.ret
            /\ \A j \in 1..(k - 1) :
                 (held[j].op = "getAbsolutePath" /\ held[j].ret = c.arg)
                   => c.ret = c.arg

C38_Witness ==
  /\ config.workingDirectory = <<"/", "work">>
  /\ Len(held) = 2
  /\ held[1] = [op |-> "getAbsolutePath", arg |-> <<"fdep">>,
                ret |-> <<"/", "work", "fdep">>]
  /\ held[2] = [op |-> "getAbsolutePath", arg |-> <<"/", "work", "fdep">>,
                ret |-> <<"/", "work", "fdep">>]

(***************************************************************************)
(* The shape of the decoded results.                                       *)
(***************************************************************************)
\* C36: every PathResult the path decoder has produced has found true
\* exactly when it has a path; its path has at least two elements, each a
\* non-empty text with no whitespace at either end; and its message is the
\* text that was decoded.
C36_PathResultWellFormed ==
  \A k \in DOMAIN held :
    LET r == held[k].ret
    IN held[k].op = "findPath"
         => /\ r.found <=> "path" \in DOMAIN r
            /\ "path" \in DOMAIN r
                 => /\ Len(r.path) >= 2
                    /\ \A j \in 1..Len(r.path) :
                         /\ r.path[j] # <<>>
                         /\ Head(r.path[j]) \notin Whitespace
                         /\ r.path[j][Len(r.path[j])] \notin Whitespace
            /\ r.message = held[k].text

\* the k-th line, from the top, of those in the set at
Nth(at, k) == CHOOSE n \in at : Cardinality({j \in at : j <= n}) = k

\* C37: the neighbor decoder reads the lines as a machine with one section
\* state: no section at the start, incoming from a line holding
\* "edges INTO" on, outgoing from a line holding "edges OUT OF" on.  A
\* banner line gives no entry, also when it has the form of an edge line;
\* each list has exactly one entry for every edge line read in its
\* section, the k-th entry coming from the k-th such line; so the two
\* lists together have as many entries as there are edge lines that are
\* no banners and are read while a section is active.
C37_SectionStateMachine ==
  Decoding("getNeighbors")
  => LET lines == HandedLines
         EdgeAt(section) ==
           {k \in 1..Len(lines) :
              /\ ~IsBanner(lines[k])
              /\ EdgeMatch(lines[k]) # <<>>
              /\ SectionOf(lines, k) = section}
         into == EdgeAt("incoming")
         outOf == EdgeAt("outgoing")
     IN /\ Len(call.ret.incoming) = Cardinality(into)
        /\ Len(call.ret.outgoing) = Cardinality(outOf)
        /\ \A k \in 1..Len(call.ret.incoming) :
             call.ret.incoming[k].from = <<Words(lines[Nth(into, k)])[1]>>
        /\ \A k \in 1..Len(call.ret.outgoing) :
             call.ret.outgoing[k].to = <<Words(lines[Nth(outOf, k)])[5]>>
        /\ Len(call.ret.incoming) + Len(call.ret.outgoing)
             = Cardinality({k \in 1..Len(lines) :
                              /\ ~IsBanner(lines[k])
                              /\ EdgeMatch(lines[k]) # <<>>
                              /\ SectionOf(lines, k) # "none"})

C37_Witness ==
  /\ Decoding("getNeighbors")
  /\ Len(HandedLines) = 4
  /\ Includes(HandedLines[1], "edges INTO")
  /\ HandedLines[2] = EdgeLine("A", "calls", "X")
  /\ HandedLines[3] = <<"C", " ", "--[", "edges OUT OF", "]-->", " ", "X">>
  /\ EdgeMatch(HandedLines[3]) # <<>>
  /\ HandedLines[4] = EdgeLine("X", "uses", "B")
  /\ call.ret.incoming = <<[from |-> <<"A">>, relation |-> <<"calls">>]>>
  /\ call.ret.outgoing = <<[to |-> <<"B">>, relation |-> <<"uses">>]>>

====
